---- MODULE Spec2Model ----
(***************************************************************************)
(* DeTrack proxy: the blocklist engine (tracker_blocker.rs), the heuristic *)
(* classifier (ai_tracker.rs), the shared-state hub (shared_state.rs) and  *)
(* the request pipeline (run_proxy.rs).                                    *)
(*                                                                         *)
(* Strings are sequences of one-character strings, so that case folding    *)
(* and suffix matching are computed, not assumed.  Wall-clock timestamps   *)
(* (log prefixes, last_seen, file headers) are left out: no decision of    *)
(* the program reads them.                                                 *)
(***************************************************************************)
EXTENDS Integers, Sequences, FiniteSets, TLC

VARIABLES
    proxy_enabled,          \* SharedState.proxy_enabled
    log_enabled,            \* SharedState.log_enabled
    logs,                   \* SharedState.logs
    trackers,               \* SharedState.blocker: TrackerBlocker.trackers
    tracker_file,           \* the file at TrackerBlocker.tracker_file_path
    stats,                  \* SharedState.stats
    allowed_count,          \* SharedState.allowed_count
    blocked_count,          \* SharedState.blocked_count
    ai,                     \* SharedState.ai_tracker: the AITracker fields
    ai_suggested_trackers,  \* SharedState.ai_suggested_trackers
    bandwidth_saved,        \* SharedState.bandwidth_saved
    held,                   \* per thread: the hub mutexes it holds, in acquisition order
    pc,                     \* per thread: its position in the operation it executes
    frame,                  \* per thread: the locals of the operation it executes
    conns,                  \* upstream TCP connections the proxy has dialled
    poisoned,               \* the hub mutexes whose holder panicked
    ui_calls,               \* control-surface operations started so far
    call                    \* the sequential caller's last call and its return value

vars == <<proxy_enabled, log_enabled, logs, trackers, tracker_file, stats,
          allowed_count, blocked_count, ai, ai_suggested_trackers,
          bandwidth_saved, held, pc, frame, conns, poisoned, ui_calls, call>>

hubVars == <<proxy_enabled, log_enabled, logs, stats, allowed_count,
             blocked_count, ai_suggested_trackers, bandwidth_saved>>

blockerVars == <<trackers, tracker_file>>

-----------------------------------------------------------------------------
(* Strings *)

\* Longest host string the blocklist specification enumerates.
MaxHostLen == 3

\* Longest blocklist entry the blocklist specification enumerates.
MaxEntryLen == 2

\* Largest blocklist the blocklist specification enumerates.
MaxTrackers == 2

\* In the classifier specification: classify calls stop once detection_count
\* has passed this, feedback calls once their counter has reached it.
MaxCount == 1

\* The characters strings are built from, with their byte values (the order
\* Vec<&String>::sort uses).
CharCode(c) ==
    CASE c = " " -> 32
      [] c = "\"" -> 34
      [] c = "#" -> 35
      [] c = "%" -> 37
      [] c = "&" -> 38
      [] c = "'" -> 39
      [] c = "+" -> 43
      [] c = "-" -> 45
      [] c = "." -> 46
      [] c = "<" -> 60
      [] c = "=" -> 61
      [] c = ">" -> 62
      [] c = "A" -> 65
      [] c = "B" -> 66
      [] c = "R" -> 82
      [] OTHER   -> 97 + (CHOOSE i \in 0..25 :
                            <<"a","b","c","d","e","f","g","h","i","j","k","l","m",
                              "n","o","p","q","r","s","t","u","v","w","x","y","z">>[i + 1] = c)

to_lowercase_char(c) ==
    CASE c = "A" -> "a"
      [] c = "B" -> "b"
      [] c = "R" -> "r"
      [] OTHER   -> c

is_whitespace(c) == c = " "

to_lowercase(s) == [i \in 1..Len(s) |-> to_lowercase_char(s[i])]

ends_with(s, suffix) ==
    /\ Len(suffix) <= Len(s)
    /\ SubSeq(s, Len(s) - Len(suffix) + 1, Len(s)) = suffix

starts_with(s, prefix) ==
    /\ Len(prefix) <= Len(s)
    /\ SubSeq(s, 1, Len(prefix)) = prefix

\* str::trim: drop leading and trailing whitespace.
RECURSIVE trim_start(_)
trim_start(s) ==
    IF s # <<>> /\ is_whitespace(Head(s)) THEN trim_start(Tail(s)) ELSE s

RECURSIVE trim_end(_)
trim_end(s) ==
    IF s # <<>> /\ is_whitespace(s[Len(s)])
    THEN trim_end(SubSeq(s, 1, Len(s) - 1))
    ELSE s

trim(s) == trim_end(trim_start(s))

\* Byte-wise lexicographic order of String.
RECURSIVE str_less(_, _)
str_less(s, t) ==
    IF t = <<>> THEN FALSE
    ELSE IF s = <<>> THEN TRUE
    ELSE IF Head(s) = Head(t) THEN str_less(Tail(s), Tail(t))
    ELSE CharCode(Head(s)) < CharCode(Head(t))

\* The elements of a finite set of strings in ascending order (sort()).
RECURSIVE sorted(_)
sorted(set) ==
    IF set = {} THEN <<>>
    ELSE LET least == CHOOSE x \in set : \A y \in set \ {x} : str_less(x, y)
         IN  <<least>> \o sorted(set \ {least})

Range(seq) == {seq[i] : i \in 1..Len(seq)}

StringsUpTo(alphabet, n) == UNION {[1..k -> alphabet] : k \in 0..n}

-----------------------------------------------------------------------------
(* TrackerBlocker *)

is_blocked_NoDot(set, host) ==
    IF set = {} THEN FALSE
    ELSE LET h == to_lowercase(host)
         IN  \/ h \in set
             \/ \E tracker \in set : ends_with(h, tracker)

is_blocked_CaseSensitive(set, host) ==
    IF set = {} THEN FALSE
    ELSE \/ host \in set
         \/ \E tracker \in set : ends_with(host, <<".">> \o tracker)

\* TrackerBlocker::is_blocked over the set `set` of blocklist entries.
is_blocked(set, host) ==
    IF set = {} THEN FALSE
    ELSE LET h == to_lowercase(host)
         IN  \/ h \in set
             \/ \E tracker \in set : ends_with(h, <<".">> \o tracker)

normalize_TrimOnly(domain) == trim(domain)

\* The normal form add_tracker, remove_tracker and the loaders give a domain.
normalize(domain) == to_lowercase(trim(domain))

\* The lines new() and import_trackers() keep of a file: trimmed, neither
\* empty nor a comment, lowercased, collected into a set.
parse_lines(content) ==
    {to_lowercase(trim(content[i])) :
        i \in {j \in 1..Len(content) :
                  LET line == trim(content[j])
                  IN  line # <<>> /\ Head(line) # "#"}}

\* The three header lines save_trackers writes.
FileHeader == << <<"#", " ", "t">>, <<"#", " ", "u">>, <<"#", " ", "f">> >>

\* The lines of the file save_trackers writes for the set `set`: the header,
\* then join("\n") of the sorted entries (one empty line for an empty join).
save_trackers(set) ==
    FileHeader \o (IF sorted(set) = <<>> THEN << <<>> >> ELSE sorted(set))

\* TrackerBlocker::get_trackers.
get_trackers(set) == sorted(set)

-----------------------------------------------------------------------------
(* AITracker *)

\* A URL string, by its parts: `parse` is whether Url::parse accepts it; a
\* string with no scheme (a bare domain) does not parse and has only `host`.
\* `path` holds the non-empty path segments, `query` the <<key, value>> pairs.
Url(host, path, query) ==
    [parse |-> TRUE, host |-> host, path |-> path, query |-> query]

\* The string `domain` used as a URL string (a decision_cache key).
BareUrl(domain) ==
    [parse |-> FALSE, host |-> domain, path |-> <<>>, query |-> <<>>]

NoReferer == [present |-> FALSE, parse |-> FALSE, host |-> <<>>]

contains(s, sub) ==
    \E i \in 1..(Len(s) - Len(sub) + 1) : SubSeq(s, i, i + Len(sub) - 1) = sub

is_numeric(c) == c \in {"0", "1", "2", "3", "4", "5", "6", "7", "8", "9"}

TrackingKeyPatterns ==
    { <<"u","t","m","_">>, <<"f","b","c","l","i","d">>, <<"g","c","l","i","d">>,
      <<"m","s","c","l","k","i","d">>, <<"d","c","l","i","d">>,
      <<"t","w","c","l","i","d">>, <<"_","g","a">>, <<"r","e","f">> }

SuspiciousPathPatterns ==
    { <<"p","i","x","e","l">>, <<"t","r","a","c","k">>,
      <<"c","o","l","l","e","c","t">>, <<"b","e","a","c","o","n">>,
      <<"1","x","1",".","g","i","f">>, <<"1","x","1",".","p","n","g">>,
      <<"i","m","p","r","e","s","s","i","o","n">> }

SuspiciousKeywords ==
    { <<"a","n","a","l","y","t","i","c","s">>, <<"t","r","a","c","k","e","r">>,
      <<"p","i","x","e","l">>, <<"s","t","a","t">>,
      <<"m","e","t","r","i","c","s">>, <<"t","e","l","e","m","e","t","r","y">>,
      <<"b","e","a","c","o","n">>, <<"c","o","u","n","t","e","r">> }

\* 1000 * log2(n), rounded, for the string lengths the model uses.
Log2Milli(n) ==
    <<0, 1000, 1585, 2000, 2322, 2585, 2807, 3000, 3170, 3322, 3459, 3585,
      3700, 3807, 3907, 4000>>[n]

RECURSIVE SumOver(_, _)
SumOver(set, f) ==
    IF set = {} THEN 0
    ELSE LET x == CHOOSE y \in set : TRUE
         IN  f[x] + SumOver(set \ {x}, f)

\* AITracker::calculate_entropy, in thousandths of a bit:
\* -sum p*log2(p) = log2(len) - (sum count*log2(count)) / len.
calculate_entropy(text) ==
    LET t == to_lowercase(text)
        n == Len(t)
        count == [c \in Range(t) |-> Cardinality({i \in 1..n : t[i] = c})]
    IN  IF n = 0 THEN 0
        ELSE Log2Milli(n)
             - (SumOver(Range(t), [c \in Range(t) |-> count[c] * Log2Milli(count[c])]) \div n)

Min(a, b) == IF a <= b THEN a ELSE b

Max(a, b) == IF a >= b THEN a ELSE b

\* FeatureWeights::default, in thousandths.
tracking_param_weight == 700
suspicious_path_weight == 500
numeric_id_weight == 300
domain_entropy_weight == 400
third_party_weight == 600
suspicious_keywords_weight == 800
path_depth_weight == 200
query_count_weight == 300

ZeroFeatures ==
    [has_tracking_params |-> FALSE, has_suspicious_path |-> FALSE,
     has_numeric_id |-> FALSE, domain_entropy |-> 0, is_third_party |-> FALSE,
     has_suspicious_keywords |-> FALSE, path_depth |-> 0, query_param_count |-> 0]

\* The parts of the URL string in which url_lower.contains(keyword) can match
\* (no keyword holds a separator character).
UrlParts(url) ==
    {url.host} \cup Range(url.path)
        \cup {url.query[i][1] : i \in 1..Len(url.query)}
        \cup {url.query[i][2] : i \in 1..Len(url.query)}

\* AITracker::extract_features.
extract_features(url, host, referer) ==
    IF ~url.parse THEN ZeroFeatures
    ELSE
    [has_tracking_params |->
        \E i \in 1..Len(url.query) :
            \E pat \in TrackingKeyPatterns :
                contains(to_lowercase(url.query[i][1]), pat),
     has_suspicious_path |->
        \E i \in 1..Len(url.path) :
            \E pat \in SuspiciousPathPatterns : starts_with(url.path[i], pat),
     has_numeric_id |->
        \E i \in 1..Len(url.path) :
            /\ \A j \in 1..Len(url.path[i]) : is_numeric(url.path[i][j])
            /\ Len(url.path[i]) > 5,
     domain_entropy |-> calculate_entropy(host),
     is_third_party |->
        IF referer.present
        THEN IF referer.parse /\ referer.host # <<>>
             THEN ~ends_with(host, referer.host) /\ ~ends_with(referer.host, host)
             ELSE TRUE
        ELSE FALSE,
     has_suspicious_keywords |->
        \E part \in UrlParts(url) :
            \E kw \in SuspiciousKeywords : contains(to_lowercase(part), kw),
     path_depth |-> Len(url.path),
     query_param_count |-> Len(url.query)]

calculate_confidence_Unclamped(f) ==
    ( (IF f.has_tracking_params THEN tracking_param_weight * 1000 ELSE 0)
    + (IF f.has_suspicious_path THEN suspicious_path_weight * 1000 ELSE 0)
    + (IF f.has_numeric_id THEN numeric_id_weight * 1000 ELSE 0)
    + Min((f.domain_entropy * 1000) \div 4500, 1000) * domain_entropy_weight
    + (IF f.is_third_party THEN third_party_weight * 1000 ELSE 0)
    + (IF f.has_suspicious_keywords THEN suspicious_keywords_weight * 1000 ELSE 0)
    + Min((f.path_depth * 1000) \div 10, 1000) * path_depth_weight
    + Min((f.query_param_count * 1000) \div 20, 1000) * query_count_weight )
        \div 3

\* AITracker::calculate_confidence, in millionths (weights and normalized
\* features are both in thousandths).
calculate_confidence(f) ==
    LET sum ==
          (IF f.has_tracking_params THEN tracking_param_weight * 1000 ELSE 0)
        + (IF f.has_suspicious_path THEN suspicious_path_weight * 1000 ELSE 0)
        + (IF f.has_numeric_id THEN numeric_id_weight * 1000 ELSE 0)
        + Min((f.domain_entropy * 1000) \div 4500, 1000) * domain_entropy_weight
        + (IF f.is_third_party THEN third_party_weight * 1000 ELSE 0)
        + (IF f.has_suspicious_keywords THEN suspicious_keywords_weight * 1000 ELSE 0)
        + Min((f.path_depth * 1000) \div 10, 1000) * path_depth_weight
        + Min((f.query_param_count * 1000) \div 20, 1000) * query_count_weight
    IN  Min(sum \div 3, 1000000)

\* AITracker::new.
NewAITracker ==
    [enabled |-> TRUE, confidence_threshold |-> 650,
     known_trackers |-> <<>>, known_legitimate |-> <<>>,
     decision_cache |-> [u \in {} |-> FALSE],
     detection_count |-> 0, false_positive_count |-> 0,
     false_negative_count |-> 0]

seq_contains(seq, x) == x \in Range(seq)

\* Vec::retain(|d| d != x).
retain_ne(seq, x) == SelectSeq(seq, LAMBDA d : d # x)

\* HashMap::insert.
cache_insert(cache, key, value) ==
    [k \in DOMAIN cache \cup {key} |-> IF k = key THEN value ELSE cache[k]]

\* HashMap::remove.
cache_remove(cache, key) == [k \in DOMAIN cache \ {key} |-> cache[k]]

\* AITracker::set_confidence_threshold (thousandths), clamped to [0, 1].
set_confidence_threshold(t, threshold) ==
    [t EXCEPT !.confidence_threshold = Min(Max(threshold, 0), 1000)]

is_likely_tracker_NoLegitimate(t, url, host, referer) ==
    IF ~t.enabled THEN [ai |-> t, result |-> FALSE]
    ELSE IF url \in DOMAIN t.decision_cache
    THEN [ai |-> t, result |-> t.decision_cache[url]]
    ELSE LET is_tracker ==
               \/ seq_contains(t.known_trackers, host)
               \/ calculate_confidence(extract_features(url, host, referer))
                        >= t.confidence_threshold * 1000
         IN  [ai |-> [t EXCEPT
                        !.decision_cache = cache_insert(@, url, is_tracker),
                        !.detection_count = IF is_tracker THEN @ + 1 ELSE @],
              result |-> is_tracker]

is_likely_tracker_CacheFirst(t, url, host, referer) ==
    IF url \in DOMAIN t.decision_cache
    THEN [ai |-> t, result |-> t.decision_cache[url]]
    ELSE IF ~t.enabled THEN [ai |-> t, result |-> FALSE]
    ELSE LET is_tracker ==
               \/ seq_contains(t.known_trackers, host)
               \/ /\ ~seq_contains(t.known_legitimate, host)
                  /\ calculate_confidence(extract_features(url, host, referer))
                        >= t.confidence_threshold * 1000
         IN  [ai |-> [t EXCEPT
                        !.decision_cache = cache_insert(@, url, is_tracker),
                        !.detection_count = IF is_tracker THEN @ + 1 ELSE @],
              result |-> is_tracker]

is_likely_tracker_CountsHit(t, url, host, referer) ==
    IF ~t.enabled THEN [ai |-> t, result |-> FALSE]
    ELSE IF url \in DOMAIN t.decision_cache
    THEN [ai |-> [t EXCEPT !.detection_count =
                     IF t.decision_cache[url] THEN @ + 1 ELSE @],
          result |-> t.decision_cache[url]]
    ELSE LET is_tracker ==
               \/ seq_contains(t.known_trackers, host)
               \/ /\ ~seq_contains(t.known_legitimate, host)
                  /\ calculate_confidence(extract_features(url, host, referer))
                        >= t.confidence_threshold * 1000
         IN  [ai |-> [t EXCEPT
                        !.decision_cache = cache_insert(@, url, is_tracker),
                        !.detection_count = IF is_tracker THEN @ + 1 ELSE @],
              result |-> is_tracker]

\* AITracker::is_likely_tracker: the tracker after the call and the verdict.
is_likely_tracker(t, url, host, referer) ==
    IF ~t.enabled THEN [ai |-> t, result |-> FALSE]
    ELSE IF url \in DOMAIN t.decision_cache
    THEN [ai |-> t, result |-> t.decision_cache[url]]
    ELSE IF seq_contains(t.known_trackers, host)
    THEN [ai |-> [t EXCEPT !.decision_cache = cache_insert(@, url, TRUE),
                           !.detection_count = @ + 1],
          result |-> TRUE]
    ELSE IF seq_contains(t.known_legitimate, host)
    THEN [ai |-> [t EXCEPT !.decision_cache = cache_insert(@, url, FALSE)],
          result |-> FALSE]
    ELSE LET features == extract_features(url, host, referer)
             confidence == calculate_confidence(features)
             is_tracker == confidence >= t.confidence_threshold * 1000
         IN  [ai |-> [t EXCEPT
                        !.decision_cache = cache_insert(@, url, is_tracker),
                        !.detection_count = IF is_tracker THEN @ + 1 ELSE @],
              result |-> is_tracker]

\* AITracker::report_false_positive.
report_false_positive(t, domain) ==
    [t EXCEPT
        !.false_positive_count = @ + 1,
        !.known_legitimate =
            IF seq_contains(@, domain) THEN @ ELSE Append(@, domain),
        !.known_trackers = retain_ne(@, domain),
        !.decision_cache = cache_remove(@, BareUrl(domain))]

report_false_negative_Keeps(t, domain) ==
    [t EXCEPT
        !.false_negative_count = @ + 1,
        !.known_trackers =
            IF seq_contains(@, domain) THEN @ ELSE Append(@, domain),
        !.decision_cache = cache_remove(@, BareUrl(domain))]

\* AITracker::report_false_negative.
report_false_negative(t, domain) ==
    [t EXCEPT
        !.false_negative_count = @ + 1,
        !.known_trackers =
            IF seq_contains(@, domain) THEN @ ELSE Append(@, domain),
        !.known_legitimate = retain_ne(@, domain),
        !.decision_cache = cache_remove(@, BareUrl(domain))]

\* AITracker::reset_stats.
ai_reset_stats(t) ==
    [t EXCEPT !.detection_count = 0, !.false_positive_count = 0,
              !.false_negative_count = 0]

clear_cache_ResetsCount(t) ==
    [t EXCEPT !.decision_cache = [u \in {} |-> FALSE], !.detection_count = 0]

\* AITracker::clear_cache.
clear_cache(t) == [t EXCEPT !.decision_cache = [u \in {} |-> FALSE]]

\* AITracker::get_detected_domains.
get_detected_domains(t) ==
    {u \in DOMAIN t.decision_cache : t.decision_cache[u]}

-----------------------------------------------------------------------------
(* SharedState: threads, mutexes and the operations every thread can call *)

\* Proxy tasks the model spawns (one per request).
MaxTasks == 2

\* Control-surface operations the model starts beside the proxy tasks.
MaxUiCalls == 1

\* Hub operations the model starts when the hub's callers run on their own.
MaxHubCalls == 3

\* The ceiling of the log buffer.
LogCeiling == 10000

\* The control-surface (GUI) thread.
UI == <<"ui", 0>>

\* The task that runs run_proxy's accept loop.
Listener == <<"listener", 0>>

\* The tasks run_proxy spawns.
Tasks == {<<"task", i>> : i \in 1..MaxTasks}

\* Two threads calling the hub's operations directly.
HubThreads == {<<"hub", 1>>, <<"hub", 2>>}

Threads == {UI, Listener} \cup Tasks \cup HubThreads

CallLimit(th) == IF th = UI THEN MaxUiCalls ELSE MaxHubCalls

Locks ==
    {"proxy_enabled", "log_enabled", "logs", "blocker", "stats", "allowed_count",
     "blocked_count", "ai_tracker", "ai_suggested_trackers", "bandwidth_saved"}

\* Mutex::lock returns once no thread holds the mutex.
Free(l) == \A th \in Threads : ~seq_contains(held[th], l)

\* lock() is Ok unless the mutex is poisoned.
LockOk(l) == l \notin poisoned

Acquire(th, l) == held' = [held EXCEPT ![th] = Append(@, l)]

\* Dropping the guard taken last.
Release(th) == held' = [held EXCEPT ![th] = SubSeq(@, 1, Len(@) - 1)]

Entry(text, arg) == [text |-> text, arg |-> arg]

NoRequest ==
    [method |-> "none", host |-> <<>>, authority |-> FALSE,
     url |-> BareUrl(<<>>), referer |-> NoReferer]

NoFrame ==
    [op |-> "none", req |-> NoRequest, domain |-> <<>>, blocked |-> FALSE,
     entry |-> Entry("", <<>>), ret |-> "idle", gate |-> "unread",
     decision |-> "unchecked", tunnel |-> "none", pending |-> 0,
     status |-> 0, result |-> "none"]

Goto(th, f, label) ==
    /\ frame' = [frame EXCEPT ![th] = f]
    /\ pc' = [pc EXCEPT ![th] = label]

\* Call append_log(entry) and continue at `ret`.
CallLog(th, f, entry, ret) ==
    Goto(th, [f EXCEPT !.entry = entry, !.ret = ret], "al_lock")

\* Call record_request(domain, blocked) and continue at `ret`.
CallRecord(th, f, domain, blocked, ret) ==
    Goto(th, [f EXCEPT !.domain = domain, !.blocked = blocked, !.ret = ret],
         "rr_stats")

\* A call returns to `f.ret`.  The caller's steps that touch nothing shared
\* run with the return: proxy's append_log("Blocked request to tracker: HOST")
\* after a blocked request is recorded, and proxy returning its response (a
\* spawned tunnel task goes on from there).
Return(th, f) ==
    IF f.ret = "p_blocked_log"
    THEN CallLog(th, [f EXCEPT !.pending = 403],
                 Entry("Blocked request to tracker", f.req.host), "p_respond")
    ELSE IF f.ret = "p_respond"
    THEN Goto(th, [f EXCEPT !.status = f.pending],
              IF f.tunnel = "none" THEN "done" ELSE "tun_upgrade")
    ELSE Goto(th, f, f.ret)

push_log_Late(buffer, entry) ==
    LET pushed == Append(buffer, entry)
    IN  IF Len(pushed) > LogCeiling + 1 THEN Tail(pushed) ELSE pushed

\* The body of append_log under the logs lock: push, then evict the oldest.
push_log(buffer, entry) ==
    LET pushed == Append(buffer, entry)
    IN  IF Len(pushed) > LogCeiling THEN Tail(pushed) ELSE pushed

al_lock_ViaBlocker(th) ==
    /\ pc[th] = "al_lock"
    /\ Free("logs")
    /\ Free("blocker")
    /\ IF LockOk("logs")
       THEN Acquire(th, "logs") /\ Goto(th, frame[th], "al_push")
       ELSE UNCHANGED held /\ Return(th, frame[th])
    /\ UNCHANGED <<hubVars, blockerVars, ai, conns, poisoned, ui_calls, call>>

\* append_log: take the logs lock (return at once when it is poisoned).
al_lock(th) ==
    /\ pc[th] = "al_lock"
    /\ Free("logs")
    /\ IF LockOk("logs")
       THEN Acquire(th, "logs") /\ Goto(th, frame[th], "al_push")
       ELSE UNCHANGED held /\ Return(th, frame[th])
    /\ UNCHANGED <<hubVars, blockerVars, ai, conns, poisoned, ui_calls, call>>

\* append_log: push the entry, evict, drop the guard, return.
al_push(th) ==
    /\ pc[th] = "al_push"
    /\ logs' = push_log(logs, frame[th].entry)
    /\ Release(th)
    /\ Return(th, frame[th])
    /\ UNCHANGED <<proxy_enabled, log_enabled, stats, allowed_count,
                   blocked_count, ai_suggested_trackers, bandwidth_saved,
                   blockerVars, ai, conns, poisoned, ui_calls, call>>

stats_update_BlockedOnly(st, domain, blocked) ==
    LET old == IF domain \in DOMAIN st THEN st[domain]
               ELSE [requests |-> 0, blocked |-> 0]
        new == IF blocked
               THEN [requests |-> old.requests, blocked |-> old.blocked + 1]
               ELSE [requests |-> old.requests + 1, blocked |-> old.blocked]
    IN  [d \in DOMAIN st \cup {domain} |-> IF d = domain THEN new ELSE st[d]]

\* The DomainStat update of record_request (the entry is created at zero).
stats_update(st, domain, blocked) ==
    LET old == IF domain \in DOMAIN st THEN st[domain]
               ELSE [requests |-> 0, blocked |-> 0]
        new == [requests |-> old.requests + 1,
                blocked |-> IF blocked THEN old.blocked + 1 ELSE old.blocked]
    IN  [d \in DOMAIN st \cup {domain} |-> IF d = domain THEN new ELSE st[d]]

rr_stats_Lost(th) ==
    /\ pc[th] = "rr_stats"
    /\ Free("stats")
    /\ stats' = [d \in DOMAIN stats \cup {frame[th].domain} |->
                    [requests |-> 1,
                     blocked |-> IF frame[th].blocked THEN 1 ELSE 0]]
    /\ Goto(th, frame[th], "rr_count")
    /\ UNCHANGED <<proxy_enabled, log_enabled, logs, allowed_count,
                   blocked_count, ai_suggested_trackers, bandwidth_saved,
                   blockerVars, ai, held, conns, poisoned, ui_calls, call>>

\* record_request, first critical section: the per-domain statistics.
rr_stats(th) ==
    /\ pc[th] = "rr_stats"
    /\ Free("stats")
    /\ stats' = IF LockOk("stats")
                THEN stats_update(stats, frame[th].domain, frame[th].blocked)
                ELSE stats
    /\ Goto(th, frame[th], "rr_count")
    /\ UNCHANGED <<proxy_enabled, log_enabled, logs, allowed_count,
                   blocked_count, ai_suggested_trackers, bandwidth_saved,
                   blockerVars, ai, held, conns, poisoned, ui_calls, call>>

\* record_request, second critical section: the matching global counter.
rr_count(th) ==
    /\ pc[th] = "rr_count"
    /\ IF frame[th].blocked
       THEN /\ Free("blocked_count")
            /\ blocked_count' = IF LockOk("blocked_count")
                                THEN blocked_count + 1 ELSE blocked_count
            /\ UNCHANGED allowed_count
       ELSE /\ Free("allowed_count")
            /\ allowed_count' = IF LockOk("allowed_count")
                                THEN allowed_count + 1 ELSE allowed_count
            /\ UNCHANGED blocked_count
    /\ Return(th, frame[th])
    /\ UNCHANGED <<proxy_enabled, log_enabled, logs, stats,
                   ai_suggested_trackers, bandwidth_saved,
                   blockerVars, ai, held, conns, poisoned, ui_calls, call>>

-----------------------------------------------------------------------------
(* SharedState: the control surface's operations *)

\* A thread of the control surface starts one more operation.
StartUi(th) ==
    /\ th \in {UI} \cup HubThreads
    /\ pc[th] = "idle"
    /\ ui_calls < CallLimit(th)
    /\ ui_calls' = ui_calls + 1

\* record_request called on its own.
record_request(th, domain, blocked) ==
    /\ StartUi(th)
    /\ CallRecord(th, [NoFrame EXCEPT !.op = "record_request"], domain, blocked,
                  "idle")
    /\ UNCHANGED <<hubVars, blockerVars, ai, held, conns, poisoned, call>>

\* enable_proxy: set the flag under its lock, then append_log.
enable_proxy(th) ==
    /\ StartUi(th)
    /\ Free("proxy_enabled")
    /\ proxy_enabled' = IF LockOk("proxy_enabled") THEN TRUE ELSE proxy_enabled
    /\ CallLog(th, [NoFrame EXCEPT !.op = "enable_proxy"],
               Entry("Proxy enabled", <<>>), "idle")
    /\ UNCHANGED <<log_enabled, logs, stats, allowed_count, blocked_count,
                   ai_suggested_trackers, bandwidth_saved, blockerVars, ai,
                   held, conns, poisoned, call>>

\* disable_proxy.
disable_proxy(th) ==
    /\ StartUi(th)
    /\ Free("proxy_enabled")
    /\ proxy_enabled' = IF LockOk("proxy_enabled") THEN FALSE ELSE proxy_enabled
    /\ CallLog(th, [NoFrame EXCEPT !.op = "disable_proxy"],
               Entry("Proxy disabled", <<>>), "idle")
    /\ UNCHANGED <<log_enabled, logs, stats, allowed_count, blocked_count,
                   ai_suggested_trackers, bandwidth_saved, blockerVars, ai,
                   held, conns, poisoned, call>>

\* enable_logging.
enable_logging(th) ==
    /\ StartUi(th)
    /\ Free("log_enabled")
    /\ log_enabled' = IF LockOk("log_enabled") THEN TRUE ELSE log_enabled
    /\ CallLog(th, [NoFrame EXCEPT !.op = "enable_logging"],
               Entry("Logging enabled", <<>>), "idle")
    /\ UNCHANGED <<proxy_enabled, logs, stats, allowed_count, blocked_count,
                   ai_suggested_trackers, bandwidth_saved, blockerVars, ai,
                   held, conns, poisoned, call>>

\* disable_logging.
disable_logging(th) ==
    /\ StartUi(th)
    /\ Free("log_enabled")
    /\ log_enabled' = IF LockOk("log_enabled") THEN FALSE ELSE log_enabled
    /\ CallLog(th, [NoFrame EXCEPT !.op = "disable_logging"],
               Entry("Logging disabled", <<>>), "idle")
    /\ UNCHANGED <<proxy_enabled, logs, stats, allowed_count, blocked_count,
                   ai_suggested_trackers, bandwidth_saved, blockerVars, ai,
                   held, conns, poisoned, call>>

\* reset_stats: clear the per-domain statistics ...
reset_stats(th) ==
    /\ StartUi(th)
    /\ Free("stats")
    /\ stats' = IF LockOk("stats") THEN [d \in {} |-> 0] ELSE stats
    /\ Goto(th, [NoFrame EXCEPT !.op = "reset_stats"], "rs_allowed")
    /\ UNCHANGED <<proxy_enabled, log_enabled, logs, allowed_count,
                   blocked_count, ai_suggested_trackers, bandwidth_saved,
                   blockerVars, ai, held, conns, poisoned, call>>

\* ... then zero allowed_count ...
rs_allowed(th) ==
    /\ pc[th] = "rs_allowed"
    /\ Free("allowed_count")
    /\ allowed_count' = IF LockOk("allowed_count") THEN 0 ELSE allowed_count
    /\ Goto(th, frame[th], "rs_blocked")
    /\ UNCHANGED <<proxy_enabled, log_enabled, logs, stats, blocked_count,
                   ai_suggested_trackers, bandwidth_saved, blockerVars, ai,
                   held, conns, poisoned, ui_calls, call>>

\* ... then zero blocked_count, then append_log.
rs_blocked(th) ==
    /\ pc[th] = "rs_blocked"
    /\ Free("blocked_count")
    /\ blocked_count' = IF LockOk("blocked_count") THEN 0 ELSE blocked_count
    /\ CallLog(th, frame[th], Entry("Statistics reset", <<>>), "idle")
    /\ UNCHANGED <<proxy_enabled, log_enabled, logs, stats, allowed_count,
                   ai_suggested_trackers, bandwidth_saved, blockerVars, ai,
                   held, conns, poisoned, ui_calls, call>>

AfterAddTracker_IgnoresErr(f) ==
    IF f.op = "approve_ai_suggestion" THEN "ap_suggested" ELSE "idle"

\* Where add_tracker returns to: approve_ai_suggestion goes on (`?` returns
\* its Err), a direct call is over.
AfterAddTracker(f) ==
    IF f.op = "approve_ai_suggestion" /\ f.result = "ok"
    THEN "ap_suggested" ELSE "idle"

\* SharedState::add_tracker up to the file write: take the blocker lock,
\* TrackerBlocker::add_tracker normalizes and, for a new domain, inserts.
bl_add(th, f, domain) ==
    /\ Free("blocker")
    /\ IF ~LockOk("blocker")
       THEN /\ Goto(th, [f EXCEPT !.domain = domain, !.result = "err"],
                    AfterAddTracker([f EXCEPT !.result = "err"]))
            /\ UNCHANGED <<held, trackers>>
       ELSE /\ Acquire(th, "blocker")
            /\ IF normalize(domain) \in trackers
               THEN /\ UNCHANGED trackers
                    /\ CallLog(th, [f EXCEPT !.domain = domain],
                               Entry("Added tracker", domain), "bl_unlock")
               ELSE /\ trackers' = trackers \cup {normalize(domain)}
                    /\ Goto(th, [f EXCEPT !.domain = domain], "bl_save")

\* SharedState::add_tracker as an operation of its own.
add_tracker(th, domain) ==
    /\ StartUi(th)
    /\ bl_add(th, [NoFrame EXCEPT !.op = "add_tracker"], domain)
    /\ UNCHANGED <<hubVars, tracker_file, ai, conns, poisoned, call>>

\* SharedState::remove_tracker up to the file write.
remove_tracker(th, domain) ==
    /\ StartUi(th)
    /\ Free("blocker")
    /\ IF ~LockOk("blocker")
       THEN /\ Goto(th, [NoFrame EXCEPT !.op = "remove_tracker",
                                        !.domain = domain, !.result = "err"],
                    "idle")
            /\ UNCHANGED <<held, trackers>>
       ELSE /\ Acquire(th, "blocker")
            /\ trackers' = trackers \ {normalize(domain)}
            /\ Goto(th, [NoFrame EXCEPT !.op = "remove_tracker",
                                        !.domain = domain], "bl_save")
    /\ UNCHANGED <<hubVars, tracker_file, ai, conns, poisoned, call>>

\* save_trackers under the blocker lock: fs::write succeeds or fails.  On
\* success the caller logs (still holding the lock); on failure the Err is
\* returned and the guard dropped, the in-memory set staying as mutated.
bl_save(th) ==
    /\ pc[th] = "bl_save"
    /\ \E written \in BOOLEAN :
        IF written
        THEN /\ tracker_file' = save_trackers(trackers)
             /\ UNCHANGED held
             /\ CallLog(th, frame[th],
                        Entry(IF frame[th].op = "remove_tracker"
                              THEN "Removed tracker" ELSE "Added tracker",
                              frame[th].domain),
                        "bl_unlock")
        ELSE /\ UNCHANGED tracker_file
             /\ Release(th)
             /\ Goto(th, [frame[th] EXCEPT !.result = "err"],
                     AfterAddTracker([frame[th] EXCEPT !.result = "err"]))
    /\ UNCHANGED <<hubVars, trackers, ai, conns, poisoned, ui_calls, call>>

\* add_tracker / remove_tracker return Ok: the blocker guard is dropped.
bl_unlock(th) ==
    /\ pc[th] = "bl_unlock"
    /\ Release(th)
    /\ Goto(th, [frame[th] EXCEPT !.result = "ok"],
            AfterAddTracker([frame[th] EXCEPT !.result = "ok"]))
    /\ UNCHANGED <<hubVars, blockerVars, ai, conns, poisoned, ui_calls, call>>

add_ai_suggested_tracker_NoCheck(th, domain) ==
    /\ StartUi(th)
    /\ Free("ai_suggested_trackers")
    /\ ai_suggested_trackers' = Append(ai_suggested_trackers, domain)
    /\ Acquire(th, "ai_suggested_trackers")
    /\ CallLog(th, [NoFrame EXCEPT !.op = "add_ai_suggested_tracker",
                                   !.domain = domain],
               Entry("Added domain to AI suggestions", domain),
               "unlock_return")
    /\ UNCHANGED <<proxy_enabled, log_enabled, logs, stats, allowed_count,
                   blocked_count, bandwidth_saved, blockerVars, ai, conns,
                   poisoned, call>>

\* add_ai_suggested_tracker: under the suggestions lock, push a domain not
\* yet listed and append_log while the guard is still held.
add_ai_suggested_tracker(th, domain) ==
    /\ StartUi(th)
    /\ Free("ai_suggested_trackers")
    /\ IF LockOk("ai_suggested_trackers")
          /\ ~seq_contains(ai_suggested_trackers, domain)
       THEN /\ ai_suggested_trackers' = Append(ai_suggested_trackers, domain)
            /\ Acquire(th, "ai_suggested_trackers")
            /\ CallLog(th, [NoFrame EXCEPT !.op = "add_ai_suggested_tracker",
                                           !.domain = domain],
                       Entry("Added domain to AI suggestions", domain),
                       "unlock_return")
       ELSE /\ UNCHANGED <<ai_suggested_trackers, held>>
            /\ Goto(th, [NoFrame EXCEPT !.op = "add_ai_suggested_tracker",
                                        !.domain = domain], "idle")
    /\ UNCHANGED <<proxy_enabled, log_enabled, logs, stats, allowed_count,
                   blocked_count, bandwidth_saved, blockerVars, ai, conns,
                   poisoned, call>>

\* save_ai_model: under the ai_tracker lock, AITracker::save (a stub that
\* writes nothing and returns Ok), then append_log with the guard held.
save_ai_model(th) ==
    /\ StartUi(th)
    /\ Free("ai_tracker")
    /\ IF LockOk("ai_tracker")
       THEN /\ Acquire(th, "ai_tracker")
            /\ CallLog(th, [NoFrame EXCEPT !.op = "save_ai_model"],
                       Entry("Saved AI model to file", <<>>), "unlock_return")
       ELSE /\ UNCHANGED held
            /\ Goto(th, [NoFrame EXCEPT !.op = "save_ai_model",
                                        !.result = "ok"], "idle")
    /\ UNCHANGED <<hubVars, blockerVars, ai, conns, poisoned, call>>

\* The end of an operation that logged under its own lock: drop the guard.
unlock_return(th) ==
    /\ pc[th] = "unlock_return"
    /\ Release(th)
    /\ Goto(th, [frame[th] EXCEPT !.result = "ok"], "idle")
    /\ UNCHANGED <<hubVars, blockerVars, ai, conns, poisoned, ui_calls, call>>

\* clear_ai_suggested_trackers: empty the queue under its lock, then
\* append_log.
clear_ai_suggested_trackers(th) ==
    /\ StartUi(th)
    /\ Free("ai_suggested_trackers")
    /\ ai_suggested_trackers' =
          IF LockOk("ai_suggested_trackers") THEN <<>>
          ELSE ai_suggested_trackers
    /\ CallLog(th, [NoFrame EXCEPT !.op = "clear_ai_suggested_trackers"],
               Entry("Cleared AI suggested trackers", <<>>), "idle")
    /\ UNCHANGED <<proxy_enabled, log_enabled, logs, stats, allowed_count,
                   blocked_count, bandwidth_saved, blockerVars, ai, held,
                   conns, poisoned, call>>

\* clear_logs: empty the buffer under its lock, then append_log.
clear_logs(th) ==
    /\ StartUi(th)
    /\ Free("logs")
    /\ logs' = IF LockOk("logs") THEN <<>> ELSE logs
    /\ CallLog(th, [NoFrame EXCEPT !.op = "clear_logs"],
               Entry("Logs cleared", <<>>), "idle")
    /\ UNCHANGED <<proxy_enabled, log_enabled, stats, allowed_count,
                   blocked_count, ai_suggested_trackers, bandwidth_saved,
                   blockerVars, ai, held, conns, poisoned, call>>

\* approve_ai_suggestion: first add_tracker(domain)? ...
approve_ai_suggestion(th, domain) ==
    /\ StartUi(th)
    /\ bl_add(th, [NoFrame EXCEPT !.op = "approve_ai_suggestion"], domain)
    /\ UNCHANGED <<hubVars, tracker_file, ai, conns, poisoned, call>>

\* ... then drop the domain from the suggestions ...
ap_suggested(th) ==
    /\ pc[th] = "ap_suggested"
    /\ Free("ai_suggested_trackers")
    /\ ai_suggested_trackers' =
          IF LockOk("ai_suggested_trackers")
          THEN retain_ne(ai_suggested_trackers, frame[th].domain)
          ELSE ai_suggested_trackers
    /\ Goto(th, frame[th], "ap_tracker")
    /\ UNCHANGED <<proxy_enabled, log_enabled, logs, stats, allowed_count,
                   blocked_count, bandwidth_saved, blockerVars, ai, held,
                   conns, poisoned, ui_calls, call>>

ap_tracker_Held(th) ==
    /\ pc[th] = "ap_tracker"
    /\ Free("ai_tracker")
    /\ Acquire(th, "ai_tracker")
    /\ ai' = report_false_negative(ai, frame[th].domain)
    /\ CallLog(th, frame[th],
               Entry("Approved AI-suggested tracker", frame[th].domain),
               "unlock_return")
    /\ UNCHANGED <<hubVars, blockerVars, conns, poisoned, ui_calls, call>>

\* ... then report_false_negative to the classifier, then append_log.
ap_tracker(th) ==
    /\ pc[th] = "ap_tracker"
    /\ Free("ai_tracker")
    /\ ai' = IF LockOk("ai_tracker")
             THEN report_false_negative(ai, frame[th].domain) ELSE ai
    /\ CallLog(th, frame[th],
               Entry("Approved AI-suggested tracker", frame[th].domain), "idle")
    /\ UNCHANGED <<hubVars, blockerVars, held, conns, poisoned, ui_calls, call>>

\* reject_ai_suggestion: drop the domain from the suggestions ...
reject_ai_suggestion(th, domain) ==
    /\ StartUi(th)
    /\ Free("ai_suggested_trackers")
    /\ ai_suggested_trackers' =
          IF LockOk("ai_suggested_trackers")
          THEN retain_ne(ai_suggested_trackers, domain)
          ELSE ai_suggested_trackers
    /\ Goto(th, [NoFrame EXCEPT !.op = "reject_ai_suggestion",
                                !.domain = domain], "rj_tracker")
    /\ UNCHANGED <<proxy_enabled, log_enabled, logs, stats, allowed_count,
                   blocked_count, bandwidth_saved, blockerVars, ai, held,
                   conns, poisoned, call>>

\* ... then report_false_positive to the classifier, then append_log.
rj_tracker(th) ==
    /\ pc[th] = "rj_tracker"
    /\ Free("ai_tracker")
    /\ ai' = IF LockOk("ai_tracker")
             THEN report_false_positive(ai, frame[th].domain) ELSE ai
    /\ CallLog(th, frame[th],
               Entry("Rejected AI-suggested tracker", frame[th].domain), "idle")
    /\ UNCHANGED <<hubVars, blockerVars, held, conns, poisoned, ui_calls, call>>

\* enable_ai_detection: AITracker::enable under the ai_tracker lock (skipped
\* when the lock is poisoned), then append_log; the function returns ().
enable_ai_detection(th) ==
    /\ StartUi(th)
    /\ Free("ai_tracker")
    /\ ai' = IF LockOk("ai_tracker") THEN [ai EXCEPT !.enabled = TRUE] ELSE ai
    /\ CallLog(th, [NoFrame EXCEPT !.op = "enable_ai_detection"],
               Entry("AI tracker detection enabled", <<>>), "idle")
    /\ UNCHANGED <<hubVars, blockerVars, held, conns, poisoned, call>>

\* disable_ai_detection.
disable_ai_detection(th) ==
    /\ StartUi(th)
    /\ Free("ai_tracker")
    /\ ai' = IF LockOk("ai_tracker") THEN [ai EXCEPT !.enabled = FALSE] ELSE ai
    /\ CallLog(th, [NoFrame EXCEPT !.op = "disable_ai_detection"],
               Entry("AI tracker detection disabled", <<>>), "idle")
    /\ UNCHANGED <<hubVars, blockerVars, held, conns, poisoned, call>>

\* set_ai_confidence_threshold (the entry's text carries the threshold).
set_ai_confidence_threshold(th, threshold) ==
    /\ StartUi(th)
    /\ Free("ai_tracker")
    /\ ai' = IF LockOk("ai_tracker")
             THEN set_confidence_threshold(ai, threshold) ELSE ai
    /\ CallLog(th, [NoFrame EXCEPT !.op = "set_ai_confidence_threshold"],
               Entry("AI confidence threshold set", <<>>), "idle")
    /\ UNCHANGED <<hubVars, blockerVars, held, conns, poisoned, call>>

\* reset_ai_stats.
reset_ai_stats(th) ==
    /\ StartUi(th)
    /\ Free("ai_tracker")
    /\ ai' = IF LockOk("ai_tracker") THEN ai_reset_stats(ai) ELSE ai
    /\ CallLog(th, [NoFrame EXCEPT !.op = "reset_ai_stats"],
               Entry("Reset AI tracker statistics", <<>>), "idle")
    /\ UNCHANGED <<hubVars, blockerVars, held, conns, poisoned, call>>

track_bandwidth_Unconditional(th, bytes, blocked) ==
    /\ StartUi(th)
    /\ Free("bandwidth_saved")
    /\ bandwidth_saved' = bandwidth_saved + bytes
    /\ Goto(th, [NoFrame EXCEPT !.op = "track_bandwidth"], "idle")
    /\ call' = [op |-> "track_bandwidth", bytes |-> bytes, blocked |-> blocked,
                n |-> ui_calls + 1]
    /\ UNCHANGED <<proxy_enabled, log_enabled, logs, stats, allowed_count,
                   blocked_count, ai_suggested_trackers, blockerVars, ai, held,
                   conns, poisoned>>

\* track_bandwidth: the bytes of a blocked request are added to the total.
\* `call` keeps the arguments of the n-th operation started.
track_bandwidth(th, bytes, blocked) ==
    /\ StartUi(th)
    /\ Free("bandwidth_saved")
    /\ bandwidth_saved' = IF blocked /\ LockOk("bandwidth_saved")
                          THEN bandwidth_saved + bytes ELSE bandwidth_saved
    /\ Goto(th, [NoFrame EXCEPT !.op = "track_bandwidth"], "idle")
    /\ call' = [op |-> "track_bandwidth", bytes |-> bytes, blocked |-> blocked,
                n |-> ui_calls + 1]
    /\ UNCHANGED <<proxy_enabled, log_enabled, logs, stats, allowed_count,
                   blocked_count, ai_suggested_trackers, blockerVars, ai, held,
                   conns, poisoned>>

is_proxy_enabled_Unchecked == proxy_enabled

\* is_proxy_enabled: lock().map(|v| *v).unwrap_or(false).
is_proxy_enabled == IF LockOk("proxy_enabled") THEN proxy_enabled ELSE FALSE

\* is_logging_enabled.
is_logging_enabled == IF LockOk("log_enabled") THEN log_enabled ELSE FALSE

\* get_logs: a clone of the buffer, vec![] when the lock is poisoned.
get_logs == IF LockOk("logs") THEN logs ELSE <<>>

\* get_bandwidth_saved.
get_bandwidth_saved == IF LockOk("bandwidth_saved") THEN bandwidth_saved ELSE 0

\* get_stats: a clone of the map, HashMap::new() when the lock is poisoned.
get_stats == IF LockOk("stats") THEN stats ELSE [d \in {} |-> 0]

\* get_allowed_count.
get_allowed_count == IF LockOk("allowed_count") THEN allowed_count ELSE 0

\* get_blocked_count.
get_blocked_count == IF LockOk("blocked_count") THEN blocked_count ELSE 0

\* is_ai_detection_enabled.
is_ai_detection_enabled == IF LockOk("ai_tracker") THEN ai.enabled ELSE FALSE

\* get_ai_suggested_trackers.
get_ai_suggested_trackers ==
    IF LockOk("ai_suggested_trackers") THEN ai_suggested_trackers ELSE <<>>

\* The accessors, each with the one lock it takes.
Accessors ==
    { <<"is_proxy_enabled", "proxy_enabled">>,
      <<"is_logging_enabled", "log_enabled">>,
      <<"get_logs", "logs">>,
      <<"get_bandwidth_saved", "bandwidth_saved">>,
      <<"get_stats", "stats">>,
      <<"get_allowed_count", "allowed_count">>,
      <<"get_blocked_count", "blocked_count">>,
      <<"is_ai_detection_enabled", "ai_tracker">>,
      <<"get_ai_suggested_trackers", "ai_suggested_trackers">> }

\* A thread calls an accessor: it waits for the lock, and what the accessor
\* returns is recorded in `call`.
accessor(th, name, lock) ==
    /\ StartUi(th)
    /\ Free(lock)
    /\ call' = [op |-> name, lock |-> lock,
                result |->
                    CASE name = "is_proxy_enabled" -> is_proxy_enabled
                      [] name = "is_logging_enabled" -> is_logging_enabled
                      [] name = "get_logs" -> get_logs
                      [] name = "get_bandwidth_saved" -> get_bandwidth_saved
                      [] name = "get_stats" -> get_stats
                      [] name = "get_allowed_count" -> get_allowed_count
                      [] name = "get_blocked_count" -> get_blocked_count
                      [] name = "is_ai_detection_enabled" ->
                            is_ai_detection_enabled
                      [] name = "get_ai_suggested_trackers" ->
                            get_ai_suggested_trackers]
    /\ UNCHANGED <<hubVars, blockerVars, ai, held, pc, frame, conns, poisoned>>

-----------------------------------------------------------------------------
(* run_proxy.rs: one task per request *)

HostA == <<"a">>

HostSubA == <<"b", ".", "a">>

HostBA == <<"b", "a">>

\* uri().host().unwrap_or("unknown-host")
UnknownHost == <<"u","n","k","n","o","w","n","-","h","o","s","t">>

\* http://a/pixel/track/123456789012?utm_source=x&utm_medium=x&utm_campaign=x
TrackingUrl(host) ==
    Url(host,
        << <<"p","i","x","e","l">>, <<"t","r","a","c","k">>,
           <<"1","2","3","4","5","6","7","8","9","0","1","2">> >>,
        << << <<"u","t","m","_","s","o","u","r","c","e">>, <<"x">> >>,
           << <<"u","t","m","_","m","e","d","i","u","m">>, <<"x">> >>,
           << <<"u","t","m","_","c","a","m","p","a","i","g","n">>, <<"x">> >> >>)

PlainUrl(host) == Url(host, <<>>, <<>>)

Request(method, host, authority, url) ==
    [method |-> method, host |-> host, authority |-> authority, url |-> url,
     referer |-> NoReferer]

\* The requests clients send in the model.
Requests ==
    { Request("GET", HostA, TRUE, TrackingUrl(HostA)),
      Request("GET", HostBA, TRUE, PlainUrl(HostBA)),
      Request("CONNECT", HostSubA, TRUE, BareUrl(HostSubA)),
      Request("CONNECT", UnknownHost, FALSE, BareUrl(<<>>)) }

is_connect(req) == req.method = "CONNECT"

Dial(t, kind) ==
    conns' = conns \cup {[task |-> t, host |-> frame[t].req.host, kind |-> kind]}

\* run_proxy: bind the listener, then append_log("Proxy server started").
run_proxy(th) ==
    /\ th = Listener
    /\ pc[th] = "start"
    /\ CallLog(th, [NoFrame EXCEPT !.op = "run_proxy"],
               Entry("Proxy server started", <<>>), "accepting")
    /\ UNCHANGED <<hubVars, blockerVars, ai, held, conns, poisoned, ui_calls,
                   call>>

accept_Inline(t, req) ==
    /\ t \in Tasks
    /\ pc[Listener] = "accepting"
    /\ pc[t] = "idle"
    /\ \A u \in Tasks : pc[u] \in {"idle", "done"}
    /\ Goto(t, [NoFrame EXCEPT !.op = "proxy", !.req = req], "p_logging")
    /\ UNCHANGED <<hubVars, blockerVars, ai, held, conns, poisoned, ui_calls,
                   call>>

\* run_proxy: accept a connection and spawn the task that serves its request.
accept(t, req) ==
    /\ t \in Tasks
    /\ pc[Listener] = "accepting"
    /\ pc[t] = "idle"
    /\ Goto(t, [NoFrame EXCEPT !.op = "proxy", !.req = req], "p_logging")
    /\ UNCHANGED <<hubVars, blockerVars, ai, held, conns, poisoned, ui_calls,
                   call>>

\* run_proxy: listener.accept() returns an error, which `?` returns from
\* run_proxy; the accept loop is over.
accept_err ==
    /\ pc[Listener] = "accepting"
    /\ Goto(Listener, [frame[Listener] EXCEPT !.result = "err"], "stopped")
    /\ UNCHANGED <<hubVars, blockerVars, ai, held, conns, poisoned, ui_calls,
                   call>>

\* proxy: if is_logging_enabled(), append_log("METHOD HOST PATH").
p_logging(t) ==
    /\ pc[t] = "p_logging"
    /\ Free("log_enabled")
    /\ IF LockOk("log_enabled") /\ log_enabled
       THEN CallLog(t, frame[t],
                    Entry(frame[t].req.method, frame[t].req.host), "p_gate")
       ELSE Goto(t, frame[t], "p_gate")
    /\ UNCHANGED <<hubVars, blockerVars, ai, held, conns, poisoned, ui_calls,
                   call>>

p_gate_Ignored(t) ==
    /\ pc[t] = "p_gate"
    /\ Free("proxy_enabled")
    /\ Goto(t, [frame[t] EXCEPT !.gate = "enabled"], "p_block")
    /\ UNCHANGED <<hubVars, blockerVars, ai, held, conns, poisoned, ui_calls,
                   call>>

p_gate_CountsBlocked(t) ==
    /\ pc[t] = "p_gate"
    /\ Free("proxy_enabled")
    /\ IF LockOk("proxy_enabled") /\ proxy_enabled
       THEN Goto(t, [frame[t] EXCEPT !.gate = "enabled"], "p_block")
       ELSE IF is_connect(frame[t].req)
       THEN IF frame[t].req.authority
            THEN Goto(t, [frame[t] EXCEPT !.gate = "disabled",
                                          !.tunnel = "passthrough",
                                          !.status = 200], "tun_upgrade")
            ELSE Goto(t, [frame[t] EXCEPT !.gate = "disabled",
                                          !.status = 400], "done")
       ELSE CallRecord(t, [frame[t] EXCEPT !.gate = "disabled",
                                           !.pending = 503],
                       frame[t].req.host, TRUE, "p_respond")
    /\ UNCHANGED <<hubVars, blockerVars, ai, held, conns, poisoned, ui_calls,
                   call>>

\* proxy: the global gate.  Disabled: a CONNECT with an authority spawns the
\* pass-through tunnel and answers 200 (400 without an authority); any other
\* request is recorded as allowed and answered 503.
p_gate(t) ==
    /\ pc[t] = "p_gate"
    /\ Free("proxy_enabled")
    /\ IF LockOk("proxy_enabled") /\ proxy_enabled
       THEN Goto(t, [frame[t] EXCEPT !.gate = "enabled"], "p_block")
       ELSE IF is_connect(frame[t].req)
       THEN IF frame[t].req.authority
            THEN Goto(t, [frame[t] EXCEPT !.gate = "disabled",
                                          !.tunnel = "passthrough",
                                          !.status = 200], "tun_upgrade")
            ELSE Goto(t, [frame[t] EXCEPT !.gate = "disabled",
                                          !.status = 400], "done")
       ELSE CallRecord(t, [frame[t] EXCEPT !.gate = "disabled",
                                           !.pending = 503],
                       frame[t].req.host, FALSE, "p_respond")
    /\ UNCHANGED <<hubVars, blockerVars, ai, held, conns, poisoned, ui_calls,
                   call>>

p_decide_Forwards(t, f, blocked) ==
    IF is_connect(f.req)
    THEN IF f.req.authority
         THEN CallRecord(t, [f EXCEPT !.tunnel = "enabled", !.pending = 200],
                         f.req.host, FALSE, "p_respond")
         ELSE Goto(t, [f EXCEPT !.status = 400], "done")
    ELSE CallRecord(t, f, f.req.host, FALSE, "p_dial")

\* proxy after the block check: a blocked request is recorded as blocked,
\* logged and answered 403; a CONNECT is recorded as allowed, its tunnel
\* spawned and answered 200 (400 without an authority); any other request is
\* recorded as allowed and forwarded.
p_decide(t, f, blocked) ==
    IF blocked
    THEN CallRecord(t, f, f.req.host, TRUE, "p_blocked_log")
    ELSE IF is_connect(f.req)
    THEN IF f.req.authority
         THEN CallRecord(t, [f EXCEPT !.tunnel = "enabled", !.pending = 200],
                         f.req.host, FALSE, "p_respond")
         ELSE Goto(t, [f EXCEPT !.status = 400], "done")
    ELSE CallRecord(t, f, f.req.host, FALSE, "p_dial")

p_block_Unchecked(t) ==
    /\ pc[t] = "p_block"
    /\ Free("blocker")
    /\ LET blocked == is_blocked(trackers, frame[t].req.host)
       IN  /\ p_decide(t, [frame[t] EXCEPT !.decision =
                              IF blocked THEN "blocked" ELSE "allowed"],
                       FALSE)
           /\ UNCHANGED held
    /\ UNCHANGED <<hubVars, blockerVars, ai, conns, poisoned, ui_calls, call>>

\* proxy: the block check under the blocker lock.  A poisoned lock is logged
\* (the guard inside the error is still held) and the request is let through.
p_block(t) ==
    /\ pc[t] = "p_block"
    /\ Free("blocker")
    /\ IF LockOk("blocker")
       THEN LET blocked == is_blocked(trackers, frame[t].req.host)
            IN  /\ p_decide(t, [frame[t] EXCEPT !.decision =
                                   IF blocked THEN "blocked" ELSE "allowed"],
                            blocked)
                /\ UNCHANGED held
       ELSE /\ Acquire(t, "blocker")
            /\ CallLog(t, frame[t], Entry("Failed to check blocker", <<>>),
                       "p_block_err")
    /\ UNCHANGED <<hubVars, blockerVars, ai, conns, poisoned, ui_calls, call>>

p_block_err_FailsClosed(t) ==
    /\ pc[t] = "p_block_err"
    /\ Release(t)
    /\ p_decide(t, [frame[t] EXCEPT !.decision = "blocked"], TRUE)
    /\ UNCHANGED <<hubVars, blockerVars, ai, conns, poisoned, ui_calls, call>>

\* proxy: the end of the poisoned arm of the block check.
p_block_err(t) ==
    /\ pc[t] = "p_block_err"
    /\ Release(t)
    /\ p_decide(t, [frame[t] EXCEPT !.decision = "allowed"], FALSE)
    /\ UNCHANGED <<hubVars, blockerVars, ai, conns, poisoned, ui_calls, call>>

\* A failure in the spawned tunnel task (its frame keeps the Err): logged to
\* the hub when the tunnel was started with the proxy enabled, printed to
\* stderr only otherwise.
TunnelFailure(t, text) ==
    IF frame[t].tunnel = "enabled"
    THEN CallLog(t, [frame[t] EXCEPT !.result = "err"],
                 Entry(text, frame[t].req.host), "done")
    ELSE Goto(t, [frame[t] EXCEPT !.result = "err"], "done")

\* The spawned task: hyper::upgrade::on(req).
tun_upgrade(t) ==
    /\ pc[t] = "tun_upgrade"
    /\ \E ok \in BOOLEAN :
        IF ok THEN Goto(t, frame[t], "tun_dial")
        ELSE TunnelFailure(t, "Upgrade error")
    /\ UNCHANGED <<hubVars, blockerVars, ai, held, conns, poisoned, ui_calls,
                   call>>

\* tunnel: TcpStream::connect(addr).
tun_dial(t) ==
    /\ pc[t] = "tun_dial"
    /\ Dial(t, "tunnel")
    /\ \E ok \in BOOLEAN :
        IF ok THEN Goto(t, frame[t], "tun_copy")
        ELSE TunnelFailure(t, "Tunnel error")
    /\ UNCHANGED <<hubVars, blockerVars, ai, held, poisoned, ui_calls, call>>

\* tunnel: copy_bidirectional until either side closes or errors.
tun_copy(t) ==
    /\ pc[t] = "tun_copy"
    /\ \E ok \in BOOLEAN :
        IF ok THEN Goto(t, frame[t], "done")
        ELSE TunnelFailure(t, "Tunnel error")
    /\ UNCHANGED <<hubVars, blockerVars, ai, held, conns, poisoned, ui_calls,
                   call>>

\* proxy, plain HTTP: TcpStream::connect(host:port).
p_dial(t) ==
    /\ pc[t] = "p_dial"
    /\ Dial(t, "forward")
    /\ \E ok \in BOOLEAN :
        IF ok THEN Goto(t, frame[t], "p_handshake")
        ELSE CallLog(t, [frame[t] EXCEPT !.pending = 502],
                     Entry("Failed to connect", frame[t].req.host), "p_respond")
    /\ UNCHANGED <<hubVars, blockerVars, ai, held, poisoned, ui_calls, call>>

p_handshake_Unlogged(t) ==
    /\ pc[t] = "p_handshake"
    /\ \E ok \in BOOLEAN :
        IF ok THEN Goto(t, frame[t], "p_send")
        ELSE Goto(t, [frame[t] EXCEPT !.pending = 502, !.status = 502], "done")
    /\ UNCHANGED <<hubVars, blockerVars, ai, held, conns, poisoned, ui_calls,
                   call>>

\* proxy, plain HTTP: the client handshake on the upstream connection.
p_handshake(t) ==
    /\ pc[t] = "p_handshake"
    /\ \E ok \in BOOLEAN :
        IF ok THEN Goto(t, frame[t], "p_send")
        ELSE CallLog(t, [frame[t] EXCEPT !.pending = 502],
                     Entry("Handshake failed", frame[t].req.host), "p_respond")
    /\ UNCHANGED <<hubVars, blockerVars, ai, held, conns, poisoned, ui_calls,
                   call>>

\* proxy, plain HTTP: send_request; the upstream response (200 here) is
\* streamed back.
p_send(t) ==
    /\ pc[t] = "p_send"
    /\ \E ok \in BOOLEAN :
        IF ok THEN Goto(t, [frame[t] EXCEPT !.status = 200], "done")
        ELSE CallLog(t, [frame[t] EXCEPT !.pending = 502],
                     Entry("Request failed", frame[t].req.host), "p_respond")
    /\ UNCHANGED <<hubVars, blockerVars, ai, held, conns, poisoned, ui_calls,
                   call>>

-----------------------------------------------------------------------------
(* The proxy and the control surface running together *)

\* The tracker file main() finds: absent (created empty), or a hand-edited
\* list with a comment and a padded upper-case entry.
InitialFiles ==
    { <<>>, << <<"#", " ", "t">>, <<" ", "A", " ">> >> }

\* The domains the control surface passes.
UiDomains == {HostA}

NoCall == [op |-> "none"]

\* SharedState::new(TrackerBlocker::new(file)), before run_proxy starts.
Init ==
    /\ proxy_enabled = TRUE
    /\ log_enabled = TRUE
    /\ logs = <<>>
    /\ tracker_file \in InitialFiles
    /\ trackers = parse_lines(tracker_file)
    /\ stats = [d \in {} |-> 0]
    /\ allowed_count = 0
    /\ blocked_count = 0
    /\ ai = NewAITracker
    /\ ai_suggested_trackers = <<>>
    /\ bandwidth_saved = 0
    /\ held = [th \in Threads |-> <<>>]
    /\ pc = [th \in Threads |-> IF th = Listener THEN "start" ELSE "idle"]
    /\ frame = [th \in Threads |-> NoFrame]
    /\ conns = {}
    /\ poisoned = {}
    /\ ui_calls = 0
    /\ call = NoCall

Next ==
    \/ \E th \in Threads : al_lock(th)
    \/ \E th \in Threads : al_push(th)
    \/ \E th \in Threads : rr_stats(th)
    \/ \E th \in Threads : rr_count(th)
    \/ enable_proxy(UI)
    \/ disable_proxy(UI)
    \/ enable_logging(UI)
    \/ disable_logging(UI)
    \/ reset_stats(UI)
    \/ rs_allowed(UI)
    \/ rs_blocked(UI)
    \/ \E d \in UiDomains : add_tracker(UI, d)
    \/ \E d \in UiDomains : remove_tracker(UI, d)
    \/ bl_save(UI)
    \/ bl_unlock(UI)
    \/ run_proxy(Listener)
    \/ \E t \in Tasks, req \in Requests : accept(t, req)
    \/ \E t \in Tasks : p_logging(t)
    \/ \E t \in Tasks : p_gate(t)
    \/ \E t \in Tasks : p_block(t)
    \/ \E t \in Tasks : tun_upgrade(t)
    \/ \E t \in Tasks : tun_dial(t)
    \/ \E t \in Tasks : tun_copy(t)
    \/ \E t \in Tasks : p_dial(t)
    \/ \E t \in Tasks : p_handshake(t)
    \/ \E t \in Tasks : p_send(t)

Spec == Init /\ [][Next]_vars

-----------------------------------------------------------------------------
(* The hub's operations called concurrently by two threads *)

NextHub ==
    \/ \E th \in HubThreads : al_lock(th)
    \/ \E th \in HubThreads : al_push(th)
    \/ \E th \in HubThreads : rr_stats(th)
    \/ \E th \in HubThreads : rr_count(th)
    \/ \E th \in HubThreads, d \in UiDomains, b \in BOOLEAN :
            record_request(th, d, b)
    \/ \E th \in HubThreads : enable_proxy(th)
    \/ \E th \in HubThreads : disable_proxy(th)
    \/ \E th \in HubThreads : enable_logging(th)
    \/ \E th \in HubThreads : disable_logging(th)
    \/ \E th \in HubThreads : reset_stats(th)
    \/ \E th \in HubThreads : rs_allowed(th)
    \/ \E th \in HubThreads : rs_blocked(th)
    \/ \E th \in HubThreads, d \in UiDomains : add_tracker(th, d)
    \/ \E th \in HubThreads, d \in UiDomains : remove_tracker(th, d)
    \/ \E th \in HubThreads : bl_save(th)
    \/ \E th \in HubThreads : bl_unlock(th)
    \/ \E th \in HubThreads, d \in UiDomains : add_ai_suggested_tracker(th, d)
    \/ \E th \in HubThreads : save_ai_model(th)
    \/ \E th \in HubThreads : unlock_return(th)
    \/ \E th \in HubThreads, d \in UiDomains : approve_ai_suggestion(th, d)
    \/ \E th \in HubThreads : ap_suggested(th)
    \/ \E th \in HubThreads : ap_tracker(th)
    \/ \E th \in HubThreads, d \in UiDomains : reject_ai_suggestion(th, d)
    \/ \E th \in HubThreads : rj_tracker(th)
    \/ \E th \in HubThreads : clear_ai_suggested_trackers(th)
    \/ \E th \in HubThreads : clear_logs(th)
    \/ \E th \in HubThreads, bytes \in {1, 2}, b \in BOOLEAN :
            track_bandwidth(th, bytes, b)

SpecHub == Init /\ [][NextHub]_vars

\* The steps by which thread th goes on with the hub operation it is in.
HubStep(th) ==
    \/ al_lock(th)
    \/ al_push(th)
    \/ rr_stats(th)
    \/ rr_count(th)
    \/ rs_allowed(th)
    \/ rs_blocked(th)
    \/ bl_save(th)
    \/ bl_unlock(th)
    \/ unlock_return(th)
    \/ ap_suggested(th)
    \/ ap_tracker(th)
    \/ rj_tracker(th)

\* Every thread inside a hub operation keeps being scheduled.
SpecHubFair == SpecHub /\ \A th \in HubThreads : WF_vars(HubStep(th))

-----------------------------------------------------------------------------
(* append_log on a log buffer that has reached its ceiling *)

\* The buffer after run_proxy's start-up entry and n - 1 toggles of the proxy
\* from the control surface, the last one enabling it.
LongRun(n) ==
    [i \in 1..n |->
        IF i = 1 THEN Entry("Proxy server started", <<>>)
        ELSE IF (n - i) % 2 = 0 THEN Entry("Proxy enabled", <<>>)
        ELSE Entry("Proxy disabled", <<>>)]

InitLog ==
    /\ proxy_enabled = TRUE
    /\ log_enabled = TRUE
    /\ logs \in {LongRun(LogCeiling - 1), LongRun(LogCeiling)}
    /\ stats = [d \in {} |-> 0]
    /\ allowed_count = 0
    /\ blocked_count = 0
    /\ ai_suggested_trackers = <<>>
    /\ bandwidth_saved = 0
    /\ held = [th \in Threads |-> <<>>]
    /\ pc = [th \in Threads |-> "idle"]
    /\ frame = [th \in Threads |-> NoFrame]
    /\ conns = {}
    /\ poisoned = {}
    /\ ui_calls = 0
    /\ tracker_file = <<>>
    /\ trackers = {}
    /\ ai = NewAITracker
    /\ call = NoCall

NextLog ==
    \/ \E th \in HubThreads : al_lock(th)
    \/ \E th \in HubThreads : al_push(th)
    \/ \E th \in HubThreads : enable_logging(th)
    \/ \E th \in HubThreads : disable_logging(th)
    \/ \E th \in HubThreads : clear_logs(th)

SpecLog == InitLog /\ [][NextLog]_vars

-----------------------------------------------------------------------------
(* is_blocked applied to enumerated blocklists and hosts *)

\* Blocklist entries: trimmed lower-case strings.
BlockEntries == StringsUpTo({"a", "."}, MaxEntryLen)

\* Hosts as requests carry them: any case.
BlockHosts == StringsUpTo({"a", ".", "A"}, MaxHostLen)

\* Every variable the specification at hand leaves at its initial value.
IdleHub ==
    /\ proxy_enabled = TRUE
    /\ log_enabled = TRUE
    /\ logs = <<>>
    /\ stats = [d \in {} |-> 0]
    /\ allowed_count = 0
    /\ blocked_count = 0
    /\ ai_suggested_trackers = <<>>
    /\ bandwidth_saved = 0
    /\ held = [th \in Threads |-> <<>>]
    /\ pc = [th \in Threads |-> "idle"]
    /\ frame = [th \in Threads |-> NoFrame]
    /\ conns = {}
    /\ poisoned = {}
    /\ ui_calls = 0

InitBlock ==
    /\ IdleHub
    /\ trackers \in {set \in SUBSET BlockEntries : Cardinality(set) <= MaxTrackers}
    /\ tracker_file = save_trackers(trackers)
    /\ ai = NewAITracker
    /\ call = NoCall

\* A caller asks blocker.is_blocked(host).
Call_is_blocked(host) ==
    /\ call' = [op |-> "is_blocked", host |-> host,
                result |-> is_blocked(trackers, host)]
    /\ UNCHANGED <<hubVars, blockerVars, ai, held, pc, frame, conns, poisoned,
                   ui_calls>>

NextBlock == \E host \in BlockHosts : Call_is_blocked(host)

SpecBlock == InitBlock /\ [][NextBlock]_vars

-----------------------------------------------------------------------------
(* The blocklist engine on its own: load, add, remove, import *)

\* Longest domain string passed to add_tracker and remove_tracker.
MaxDomainLen == 2

\* Most lines of an imported file.
MaxImportLines == 2

\* The strings callers pass: mixed case, padded, comment-like or empty.
DomainInputs == StringsUpTo({"a", "A", " ", "#"}, MaxDomainLen)

\* The lines of the files import_trackers reads.
ImportLines == { <<>>, <<"#", "a">>, <<" ", "A">>, <<"a", "a", " ">> }

ImportFiles == UNION {[1..k -> ImportLines] : k \in 0..MaxImportLines}

\* TrackerBlocker::new(file) at start-up.
InitList ==
    /\ IdleHub
    /\ tracker_file \in InitialFiles
    /\ trackers = parse_lines(tracker_file)
    /\ ai = NewAITracker
    /\ call = NoCall

ListFrame == <<hubVars, ai, held, pc, frame, conns, poisoned, ui_calls>>

Call_add_tracker_AlwaysSaves(domain) ==
    /\ Cardinality(trackers \cup {normalize(domain)}) <= MaxTrackers
    /\ trackers' = trackers \cup {normalize(domain)}
    /\ \E written \in BOOLEAN :
         /\ tracker_file' = IF written THEN save_trackers(trackers')
                            ELSE tracker_file
         /\ call' = [op |-> "add_tracker", domain |-> domain,
                     result |-> IF written THEN "ok" ELSE "err",
                     written |-> written,
                     present |-> normalize(domain) \in trackers]
    /\ UNCHANGED ListFrame

\* TrackerBlocker::add_tracker: nothing to do for a known domain; else insert
\* and save_trackers, whose fs::write succeeds or fails.  `present` is what
\* contains (in remove_tracker: HashSet::remove) answered.
Call_add_tracker(domain) ==
    LET d == normalize(domain)
    IN  /\ Cardinality(trackers \cup {d}) <= MaxTrackers
        /\ IF d \in trackers
           THEN /\ UNCHANGED blockerVars
                /\ call' = [op |-> "add_tracker", domain |-> domain,
                            result |-> "ok", written |-> FALSE,
                            present |-> TRUE]
           ELSE /\ trackers' = trackers \cup {d}
                /\ \E written \in BOOLEAN :
                     /\ tracker_file' = IF written THEN save_trackers(trackers')
                                        ELSE tracker_file
                     /\ call' = [op |-> "add_tracker", domain |-> domain,
                                 result |-> IF written THEN "ok" ELSE "err",
                                 written |-> written, present |-> FALSE]
        /\ UNCHANGED ListFrame

Call_remove_tracker_RollsBack(domain) ==
    /\ \E written \in BOOLEAN :
         /\ trackers' = IF written THEN trackers \ {normalize(domain)}
                        ELSE trackers
         /\ tracker_file' = IF written THEN save_trackers(trackers')
                            ELSE tracker_file
         /\ call' = [op |-> "remove_tracker", domain |-> domain,
                     result |-> IF written THEN "ok" ELSE "err",
                     written |-> written,
                     present |-> normalize(domain) \in trackers]
    /\ UNCHANGED ListFrame

\* TrackerBlocker::remove_tracker: remove, then save_trackers in every case.
Call_remove_tracker(domain) ==
    /\ trackers' = trackers \ {normalize(domain)}
    /\ \E written \in BOOLEAN :
         /\ tracker_file' = IF written THEN save_trackers(trackers')
                            ELSE tracker_file
         /\ call' = [op |-> "remove_tracker", domain |-> domain,
                     result |-> IF written THEN "ok" ELSE "err",
                     written |-> written,
                     present |-> normalize(domain) \in trackers]
    /\ UNCHANGED ListFrame

\* TrackerBlocker::import_trackers: when the import file cannot be read,
\* nothing happens; else insert the file's domains that are new, and
\* save_trackers when at least one was.
Call_import_trackers(content) ==
    LET added == parse_lines(content) \ trackers
    IN  /\ Cardinality(trackers \cup added) <= MaxTrackers
        /\ \/ /\ UNCHANGED blockerVars
              /\ call' = [op |-> "import_trackers", content |-> content,
                          result |-> "err", written |-> FALSE]
           \/ /\ trackers' = trackers \cup added
              /\ \E written \in BOOLEAN :
                   /\ tracker_file' = IF added # {} /\ written
                                      THEN save_trackers(trackers')
                                      ELSE tracker_file
                   /\ call' = [op |-> "import_trackers", content |-> content,
                               result |-> IF added = {} \/ written
                                          THEN "ok" ELSE "err",
                               written |-> added # {} /\ written]
        /\ UNCHANGED ListFrame

\* The program is started again: TrackerBlocker::new on the file as it is.
Call_load ==
    /\ trackers' = parse_lines(tracker_file)
    /\ UNCHANGED tracker_file
    /\ call' = [op |-> "load"]
    /\ UNCHANGED ListFrame

NextList ==
    \/ \E domain \in DomainInputs : Call_add_tracker(domain)
    \/ \E domain \in DomainInputs : Call_remove_tracker(domain)
    \/ \E content \in ImportFiles : Call_import_trackers(content)
    \/ Call_load

SpecList == InitList /\ [][NextList]_vars

-----------------------------------------------------------------------------
(* clean_url: the url crate's parser and serializer, and the filter *)

\* tracking_params as TrackerBlocker::new fills it.
tracking_params ==
    { <<"u","t","m","_","s","o","u","r","c","e">>,
      <<"u","t","m","_","m","e","d","i","u","m">>,
      <<"u","t","m","_","c","a","m","p","a","i","g","n">>,
      <<"u","t","m","_","t","e","r","m">>,
      <<"u","t","m","_","c","o","n","t","e","n","t">>,
      <<"f","b","c","l","i","d">>,
      <<"g","c","l","i","d">>,
      <<"m","s","c","l","k","i","d">>,
      <<"d","c","l","i","d">>,
      <<"t","w","c","l","i","d">>,
      <<"_","g","a">>,
      <<"_","h","s","e","n","c">>,
      <<"_","o","p","e","n","s","t","a","t">>,
      <<"r","e","f">>,
      <<"r","e","f","e","r","r","e","r">>,
      <<"s","o","u","r","c","e">>,
      <<"m","c","_","c","i","d">>,
      <<"m","c","_","e","i","d">>,
      <<"w","i","c","k","e","d","i","d">>,
      <<"y","c","l","i","d">> }

is_tracking_parameter(param_name) == to_lowercase(param_name) \in tracking_params

HexDigits == <<"0","1","2","3","4","5","6","7","8","9","A","B","C","D","E","F">>

hex_value(c) == (CHOOSE i \in 1..16 : HexDigits[i] = c) - 1

\* The characters of the enumerated URLs, by byte value.
byte_char(b) ==
    CASE b = 32 -> " "
      [] b = 37 -> "%"
      [] b = 38 -> "&"
      [] b = 43 -> "+"
      [] b = 61 -> "="

\* percent_encoding::percent_decode: %XY becomes the byte XY, anything else
\* stays.
RECURSIVE percent_decode(_)
percent_decode(s) ==
    IF s = <<>> THEN <<>>
    ELSE IF Len(s) >= 3 /\ s[1] = "%"
                /\ \A k \in 2..3 : \E i \in 1..16 : HexDigits[i] = s[k]
         THEN <<byte_char(16 * hex_value(s[2]) + hex_value(s[3]))>>
                  \o percent_decode(SubSeq(s, 4, Len(s)))
         ELSE <<s[1]>> \o percent_decode(Tail(s))

\* form_urlencoded's decode: '+' is a space, then percent_decode.
form_decode(s) ==
    percent_decode([i \in 1..Len(s) |-> IF s[i] = "+" THEN " " ELSE s[i]])

\* The position of the first c in s, or Len(s) + 1.
find(s, c) ==
    IF \E i \in 1..Len(s) : s[i] = c
    THEN CHOOSE i \in 1..Len(s) : s[i] = c /\ \A j \in 1..(i - 1) : s[j] # c
    ELSE Len(s) + 1

\* str::split on one character.
RECURSIVE split(_, _)
split(s, c) ==
    LET i == find(s, c)
    IN  IF i > Len(s) THEN <<s>>
        ELSE <<SubSeq(s, 1, i - 1)>> \o split(SubSeq(s, i + 1, Len(s)), c)

\* form_urlencoded::parse: the pieces between '&', empty ones skipped, each
\* cut at its first '=' and both halves decoded.
form_urlencoded_parse(query) ==
    LET pieces == SelectSeq(split(query, "&"), LAMBDA p : p # <<>>)
    IN  [i \in 1..Len(pieces) |->
            LET eq == find(pieces[i], "=")
            IN  << form_decode(SubSeq(pieces[i], 1, eq - 1)),
                   form_decode(SubSeq(pieces[i], eq + 1, Len(pieces[i]))) >>]

\* The url parser's query state on an http URL: the characters of the query
\* percent-encode set are escaped, every other character is copied; '%',
\* '&', '=' and '+' are not in the set.
query_encode_set == {" ", "\"", "#", "<", ">", "'"}

RECURSIVE parse_query(_)
parse_query(input) ==
    IF input = <<>> THEN <<>>
    ELSE (IF Head(input) \in query_encode_set
          THEN <<"%", HexDigits[(CharCode(Head(input)) \div 16) + 1],
                      HexDigits[(CharCode(Head(input)) % 16) + 1]>>
          ELSE <<Head(input)>>) \o parse_query(Tail(input))

HttpScheme == <<"h", "t", "t", "p", ":", "/", "/">>

\* Url::parse on the enumerated strings: an http URL has its host folded to
\* lowercase, "/" for an empty path and its query passed through
\* parse_query; a string without a scheme is an error.
Url_parse(url_str) ==
    IF ~starts_with(url_str, HttpScheme) THEN [ok |-> FALSE]
    ELSE LET rest == SubSeq(url_str, Len(HttpScheme) + 1, Len(url_str))
             q == find(rest, "?")
             front == SubSeq(rest, 1, q - 1)
             slash == find(front, "/")
             host == SubSeq(front, 1, slash - 1)
             path == SubSeq(front, slash, Len(front))
         IN  IF host = <<>> THEN [ok |-> FALSE]
             ELSE [ok |-> TRUE,
                   host |-> to_lowercase(host),
                   path |-> IF path = <<>> THEN <<"/">> ELSE path,
                   has_query |-> q <= Len(rest),
                   query |-> parse_query(SubSeq(rest, q + 1, Len(rest)))]

\* Url::query_pairs.
query_pairs(parsed_url) ==
    IF parsed_url.has_query THEN form_urlencoded_parse(parsed_url.query)
    ELSE <<>>

\* Url::set_query(Some(query_string)).
set_query_some(parsed_url, query_string) ==
    [parsed_url EXCEPT !.has_query = TRUE, !.query = parse_query(query_string)]

\* Url's Display.
url_to_string(parsed_url) ==
    HttpScheme \o parsed_url.host \o parsed_url.path
        \o (IF parsed_url.has_query THEN <<"?">> \o parsed_url.query ELSE <<>>)

\* new_query_pairs: the pairs whose key is not a tracking parameter.
new_query_pairs(pairs) ==
    SelectSeq(pairs, LAMBDA kv : ~is_tracking_parameter(kv[1]))

\* format!("{}={}", k, v) of each pair, joined with "&".
RECURSIVE join_pairs(_)
join_pairs(pairs) ==
    IF pairs = <<>> THEN <<>>
    ELSE pairs[1][1] \o <<"=">> \o pairs[1][2]
            \o (IF Len(pairs) = 1 THEN <<>>
                ELSE <<"&">> \o join_pairs(Tail(pairs)))

clean_url(url_str) ==
    LET parsed_url == Url_parse(url_str)
    IN  IF ~parsed_url.ok THEN url_str
        ELSE LET kept == new_query_pairs(query_pairs(parsed_url))
                 cleared == [parsed_url EXCEPT !.has_query = FALSE,
                                               !.query = <<>>]
             IN  url_to_string(IF kept = <<>> THEN cleared
                               ELSE set_query_some(cleared, join_pairs(kept)))

\* Most pieces a query of the enumerated URLs is put together from.
MaxPieces == 4

\* A tracking parameter name in two spellings, another name, the separators,
\* their percent-encoded forms, '+' and its percent-encoded form.
QueryPieces ==
    { <<"r","e","f">>, <<"R","e","f">>, <<"a">>, <<"=">>, <<"&">>,
      <<"%","2","6">>, <<"%","3","D">>, <<"+">>, <<"%","2","B">> }

RECURSIVE concat(_)
concat(seqs) == IF seqs = <<>> THEN <<>> ELSE Head(seqs) \o concat(Tail(seqs))

\* An http URL, one whose host is in upper case and has no path, and a
\* string without a scheme.
UrlBases ==
    { HttpScheme \o <<"a", "/">>, HttpScheme \o <<"A">>, <<"a", "/">> }

\* Each of them without a query and with every query of up to MaxPieces
\* pieces.
UrlInputs ==
    {b \o q : b \in UrlBases,
              q \in {<<>>} \cup {<<"?">> \o concat(ps) :
                        ps \in UNION {[1..k -> QueryPieces] : k \in 0..MaxPieces}}}

\* How often clean_url is applied to its own result.
MaxPasses == 2

InitClean ==
    /\ IdleHub
    /\ trackers = {}
    /\ tracker_file = <<>>
    /\ ai = NewAITracker
    /\ \E url_str \in UrlInputs : call = [op |-> "url", url_str |-> url_str]

\* clean_url on the URL at hand, then on what it returned.
Call_clean_url ==
    /\ call.op = "url" \/ (call.op = "clean_url" /\ call.pass < MaxPasses)
    /\ LET url_str == IF call.op = "url" THEN call.url_str ELSE call.result
       IN  call' = [op |-> "clean_url", url_str |-> url_str,
                    result |-> clean_url(url_str),
                    pass |-> IF call.op = "url" THEN 1 ELSE call.pass + 1]
    /\ UNCHANGED <<blockerVars, ListFrame>>

NextClean == Call_clean_url

SpecClean == InitClean /\ [][NextClean]_vars

-----------------------------------------------------------------------------
(* The classifier called by one thread *)

AiUrls == {TrackingUrl(HostA), PlainUrl(HostA), BareUrl(HostA)}

AiHosts == {HostA, HostBA}

AiReferers ==
    { NoReferer,
      [present |-> TRUE, parse |-> FALSE, host |-> <<>>],
      [present |-> TRUE, parse |-> TRUE, host |-> HostBA] }

\* Thresholds (thousandths) the caller passes to set_confidence_threshold.
AiThresholds == {0 - 500, 650}

InitAI ==
    /\ IdleHub
    /\ trackers = {}
    /\ tracker_file = <<>>
    /\ ai = NewAITracker
    /\ call = NoCall

AiFrame == <<hubVars, blockerVars, held, pc, frame, conns, poisoned, ui_calls>>

\* `repeat`: the call before this one was is_likely_tracker with the same URL.
Call_is_likely_tracker(url, host, referer) ==
    LET r == is_likely_tracker(ai, url, host, referer)
    IN  /\ ai.detection_count <= MaxCount
        /\ ai' = r.ai
        /\ call' = [op |-> "is_likely_tracker", url |-> url, host |-> host,
                    repeat |-> call.op = "is_likely_tracker" /\ call.url = url,
                    result |-> r.result]
        /\ UNCHANGED AiFrame

Call_report_false_positive(domain) ==
    /\ ai.false_positive_count < MaxCount
    /\ ai' = report_false_positive(ai, domain)
    /\ call' = [op |-> "report_false_positive", domain |-> domain]
    /\ UNCHANGED AiFrame

Call_report_false_negative(domain) ==
    /\ ai.false_negative_count < MaxCount
    /\ ai' = report_false_negative(ai, domain)
    /\ call' = [op |-> "report_false_negative", domain |-> domain]
    /\ UNCHANGED AiFrame

Call_enable ==
    /\ ai' = [ai EXCEPT !.enabled = TRUE]
    /\ call' = [op |-> "enable"]
    /\ UNCHANGED AiFrame

Call_disable ==
    /\ ai' = [ai EXCEPT !.enabled = FALSE]
    /\ call' = [op |-> "disable"]
    /\ UNCHANGED AiFrame

Call_set_confidence_threshold(threshold) ==
    /\ ai' = set_confidence_threshold(ai, threshold)
    /\ call' = [op |-> "set_confidence_threshold"]
    /\ UNCHANGED AiFrame

Call_reset_stats ==
    /\ ai' = ai_reset_stats(ai)
    /\ call' = [op |-> "reset_stats"]
    /\ UNCHANGED AiFrame

Call_clear_cache ==
    /\ ai' = clear_cache(ai)
    /\ call' = [op |-> "clear_cache"]
    /\ UNCHANGED AiFrame

NextAI ==
    \/ \E url \in AiUrls, host \in AiHosts, referer \in AiReferers :
            Call_is_likely_tracker(url, host, referer)
    \/ \E domain \in AiHosts : Call_report_false_positive(domain)
    \/ \E domain \in AiHosts : Call_report_false_negative(domain)
    \/ Call_enable
    \/ Call_disable
    \/ \E threshold \in AiThresholds : Call_set_confidence_threshold(threshold)
    \/ Call_reset_stats
    \/ Call_clear_cache

SpecAI == InitAI /\ [][NextAI]_vars

-----------------------------------------------------------------------------
(* The classifier's scoring path: extract_features and calculate_confidence *)

\* Feature vectors calculate_confidence is applied to: every combination of
\* the flags, with entropy (thousandths of a bit), path depth and parameter
\* count below, at and above where their normalization saturates.
FeatureVectors ==
    [has_tracking_params : BOOLEAN, has_suspicious_path : BOOLEAN,
     has_numeric_id : BOOLEAN, domain_entropy : {0, 2000, 5000},
     is_third_party : BOOLEAN, has_suspicious_keywords : BOOLEAN,
     path_depth : {0, 3, 11}, query_param_count : {0, 3, 21}]

\* The URLs scored: every host with every path and query below, and the
\* bare host.  The paths: none, five digits, /pixel/track with and without
\* the twelve digits, /track with six digits.
ScoreUrls ==
    {Url(host, path, query) :
        host \in {HostA, HostBA, HostSubA},
        path \in { <<>>, << <<"1","2","3","4","5">> >>,
                   << <<"p","i","x","e","l">>, <<"t","r","a","c","k">>,
                      <<"1","2","3","4","5","6","7","8","9","0","1","2">> >>,
                   << <<"p","i","x","e","l">>, <<"t","r","a","c","k">> >>,
                   << <<"t","r","a","c","k">>, <<"1","2","3","4","5","6">> >> },
        query \in { <<>>, << << <<"a">>, <<"x">> >> >>,
                    << << <<"u","t","m","_","s","o","u","r","c","e">>, <<"x">> >> >>,
                    << << <<"u","t","m","_","s","o","u","r","c","e">>, <<"x">> >>,
                       << <<"u","t","m","_","m","e","d","i","u","m">>, <<"x">> >>,
                       << <<"u","t","m","_","c","a","m","p","a","i","g","n">>, <<"x">> >> >> }}
        \cup {BareUrl(host) : host \in {HostA, HostBA, HostSubA}}

\* The first call on a classifier just made by AITracker::new (dropped after
\* the call): is_likely_tracker reaches the scoring path; the features, the
\* confidence and the verdict.
Call_score(url, referer) ==
    LET r == is_likely_tracker(NewAITracker, url, url.host, referer)
        features == extract_features(url, url.host, referer)
    IN  /\ call = NoCall
        /\ call' = [op |-> "score", url |-> url, host |-> url.host,
                    referer |-> referer, features |-> features,
                    confidence |-> calculate_confidence(features),
                    result |-> r.result]
        /\ UNCHANGED <<ai, AiFrame>>

Call_calculate_confidence(features) ==
    /\ call = NoCall
    /\ call' = [op |-> "calculate_confidence", features |-> features,
                confidence |-> calculate_confidence(features)]
    /\ UNCHANGED <<ai, AiFrame>>

NextFeat ==
    \/ \E url \in ScoreUrls,
          referer \in AiReferers \cup {[present |-> TRUE, parse |-> TRUE, host |-> HostA]} :
            Call_score(url, referer)
    \/ \E features \in FeatureVectors : Call_calculate_confidence(features)

SpecFeat == InitAI /\ [][NextFeat]_vars

-----------------------------------------------------------------------------
(* The hub called by one thread while some of its locks are poisoned *)

\* The locks an earlier holder left poisoned by panicking: none, one, or all.
PoisonedSets == {{}} \cup {{l} : l \in Locks} \cup {Locks}

\* The hub after run_proxy started, a blocked and an allowed request to HostA
\* were recorded, one byte was tracked as saved and a suggestion was queued,
\* the locks of one PoisonedSets member having been poisoned since.
InitPoison ==
    /\ proxy_enabled = TRUE
    /\ log_enabled = TRUE
    /\ logs = << Entry("Proxy server started", <<>>) >>
    /\ tracker_file = <<>>
    /\ trackers = {}
    /\ stats = stats_update(stats_update([d \in {} |-> 0], HostA, TRUE),
                            HostA, FALSE)
    /\ allowed_count = 1
    /\ blocked_count = 1
    /\ ai = NewAITracker
    /\ ai_suggested_trackers = << HostA >>
    /\ bandwidth_saved = 1
    /\ held = [th \in Threads |-> <<>>]
    /\ pc = [th \in Threads |-> "idle"]
    /\ frame = [th \in Threads |-> NoFrame]
    /\ conns = {}
    /\ poisoned \in PoisonedSets
    /\ ui_calls = 0
    /\ call = NoCall

NextPoison ==
    \/ \E a \in Accessors : accessor(<<"hub", 1>>, a[1], a[2])
    \/ al_lock(<<"hub", 1>>)
    \/ al_push(<<"hub", 1>>)
    \/ rr_stats(<<"hub", 1>>)
    \/ rr_count(<<"hub", 1>>)
    \/ \E b \in BOOLEAN : record_request(<<"hub", 1>>, HostA, b)
    \/ \E b \in BOOLEAN : track_bandwidth(<<"hub", 1>>, 1, b)
    \/ enable_proxy(<<"hub", 1>>)
    \/ add_tracker(<<"hub", 1>>, HostA)
    \/ remove_tracker(<<"hub", 1>>, HostA)
    \/ bl_save(<<"hub", 1>>)
    \/ bl_unlock(<<"hub", 1>>)
    \/ enable_ai_detection(<<"hub", 1>>)
    \/ disable_ai_detection(<<"hub", 1>>)
    \/ \E threshold \in AiThresholds :
            set_ai_confidence_threshold(<<"hub", 1>>, threshold)
    \/ reset_ai_stats(<<"hub", 1>>)
    \/ approve_ai_suggestion(<<"hub", 1>>, HostA)
    \/ ap_suggested(<<"hub", 1>>)
    \/ ap_tracker(<<"hub", 1>>)
    \/ reject_ai_suggestion(<<"hub", 1>>, HostA)
    \/ rj_tracker(<<"hub", 1>>)

SpecPoison == InitPoison /\ [][NextPoison]_vars

-----------------------------------------------------------------------------
(* The accept loop beside the tasks it spawned *)

NextAccept ==
    \/ \E th \in {Listener} \cup Tasks : al_lock(th)
    \/ \E th \in {Listener} \cup Tasks : al_push(th)
    \/ \E t \in Tasks : rr_stats(t)
    \/ \E t \in Tasks : rr_count(t)
    \/ run_proxy(Listener)
    \/ \E t \in Tasks, req \in Requests : accept(t, req)
    \/ accept_err
    \/ \E t \in Tasks : p_logging(t)
    \/ \E t \in Tasks : p_gate(t)
    \/ \E t \in Tasks : p_block(t)
    \/ \E t \in Tasks : tun_upgrade(t)
    \/ \E t \in Tasks : tun_dial(t)
    \/ \E t \in Tasks : tun_copy(t)
    \/ \E t \in Tasks : p_dial(t)
    \/ \E t \in Tasks : p_handshake(t)
    \/ \E t \in Tasks : p_send(t)

SpecAccept == Init /\ [][NextAccept]_vars

\* The steps of the task that runs run_proxy, apart from accept failing.
ListenerStep ==
    \/ run_proxy(Listener)
    \/ al_lock(Listener)
    \/ al_push(Listener)
    \/ \E t \in Tasks, req \in Requests : accept(t, req)

\* The runtime keeps polling the listener task, and connections keep
\* arriving; the spawned tasks may wait on their peers for ever.
SpecAcceptFair == SpecAccept /\ WF_vars(ListenerStep)

-----------------------------------------------------------------------------
(* The proxy while the blocker lock is poisoned *)

\* The hub as main() builds it, the blocker lock intact or poisoned by a
\* thread that panicked while holding it.
InitFailOpen ==
    /\ proxy_enabled = TRUE
    /\ log_enabled = TRUE
    /\ logs = <<>>
    /\ tracker_file \in InitialFiles
    /\ trackers = parse_lines(tracker_file)
    /\ stats = [d \in {} |-> 0]
    /\ allowed_count = 0
    /\ blocked_count = 0
    /\ ai = NewAITracker
    /\ ai_suggested_trackers = <<>>
    /\ bandwidth_saved = 0
    /\ held = [th \in Threads |-> <<>>]
    /\ pc = [th \in Threads |-> IF th = Listener THEN "start" ELSE "idle"]
    /\ frame = [th \in Threads |-> NoFrame]
    /\ conns = {}
    /\ poisoned \in {{}, {"blocker"}}
    /\ ui_calls = 0
    /\ call = NoCall

NextFailOpen ==
    \/ NextAccept
    \/ \E t \in Tasks : p_block_err(t)

SpecFailOpen == InitFailOpen /\ [][NextFailOpen]_vars

-----------------------------------------------------------------------------
(* Claims *)

\* h ends with "." followed by e, position by position.
DotSuffix(h, e) ==
    /\ Len(h) > Len(e)
    /\ h[Len(h) - Len(e)] = "."
    /\ \A i \in 1..Len(e) : h[Len(h) - Len(e) + i] = e[i]

\* C3: is_blocked(h) is true exactly when some entry e equals lowercase(h) or
\* lowercase(h) ends with "." + e; an empty blocklist blocks nothing; blocking
\* "a" blocks "a.a" but not "aa".
C3_IsBlockedIffSuffixMatch ==
    call.op = "is_blocked" =>
        /\ call.result <=>
              \E e \in trackers :
                  \/ to_lowercase(call.host) = e
                  \/ DotSuffix(to_lowercase(call.host), e)
        /\ trackers = {} => ~call.result
        /\ (trackers = {<<"a">>} /\ call.host = <<"a", ".", "a">>) => call.result
        /\ (trackers = {<<"a">>} /\ call.host = <<"a", "a">>) => ~call.result

\* C3 witness: an upper-case subdomain of the only entry is blocked.
C3_Witness ==
    /\ call.op = "is_blocked"
    /\ trackers = {<<"a">>}
    /\ call.host = <<"A", ".", "a">>
    /\ call.result

\* C9: after report_false_positive(d), d is in KnownLegitimate and not in
\* KnownTrackers, and every later classify call with host d (no
\* report_false_negative(d) in between, so d is still in KnownLegitimate)
\* returns false, whatever classify calls came before.
C9_FeedbackConsistency ==
    /\ call.op = "report_false_positive" =>
          /\ seq_contains(ai.known_legitimate, call.domain)
          /\ ~seq_contains(ai.known_trackers, call.domain)
    /\ (call.op = "is_likely_tracker"
          /\ seq_contains(ai.known_legitimate, call.host)) => ~call.result

\* C10: a classify call that repeats the URL of the classify call just before
\* it returns the same verdict and changes nothing in the classifier (counters,
\* cache, known-lists); with the classifier enabled it finds the URL cached.
C10_RepeatIsCacheHit ==
    [][(call'.op = "is_likely_tracker" /\ call'.repeat) =>
          /\ call'.result = call.result
          /\ ai' = ai
          /\ ai.enabled => call'.url \in DOMAIN ai.decision_cache]_vars

\* C10 witness: a repeated call returned the cached positive verdict, counted
\* once.
C10_Witness ==
    /\ call.op = "is_likely_tracker"
    /\ call.repeat
    /\ call.result
    /\ ai.enabled
    /\ ai.detection_count = 1

-----------------------------------------------------------------------------
(* The request pipeline (Spec) *)

Requests_of(st, d) == IF d \in DOMAIN st THEN st[d].requests ELSE 0

Blocked_of(st, d) == IF d \in DOMAIN st THEN st[d].blocked ELSE 0

ConnsOf(t) == {c \in conns : c.task = t}

\* The task's record_request call updates the per-domain statistics.
StatsStep(t) == pc[t] = "rr_stats" /\ pc'[t] = "rr_count"

\* The task's record_request call updates the global counter and returns.
CountStep(t) == pc[t] = "rr_count" /\ pc'[t] # "rr_count"

\* The task reads the proxy toggle.
GateStep(t) == pc[t] = "p_gate" /\ pc'[t] # "p_gate"

\* The task runs the block check.
BlockStep(t) == pc[t] = "p_block" /\ pc'[t] # "p_block"

C1_State ==
    \A t \in Tasks :
        frame[t].decision = "blocked" =>
            /\ frame[t].gate = "enabled"
            /\ frame[t].blocked
            /\ frame[t].domain = frame[t].req.host
            /\ frame[t].tunnel = "none"
            /\ ConnsOf(t) = {}
            /\ pc[t] \in {"rr_stats", "rr_count", "al_lock", "al_push", "done"}
            /\ pc[t] = "done" => frame[t].status = 403

C1_Step ==
    \A t \in Tasks :
        LET h == frame[t].req.host
        IN  /\ (BlockStep(t) /\ is_blocked(trackers, h)) =>
                   frame'[t].decision = "blocked" /\ pc'[t] = "rr_stats"
            /\ (frame[t].decision = "blocked" /\ StatsStep(t)) =>
                   /\ Requests_of(stats', h) = Requests_of(stats, h) + 1
                   /\ Blocked_of(stats', h) = Blocked_of(stats, h) + 1
                   /\ UNCHANGED <<allowed_count, blocked_count>>
            /\ (frame[t].decision = "blocked" /\ CountStep(t)) =>
                   /\ blocked_count' = blocked_count + 1
                   /\ UNCHANGED <<allowed_count, stats>>
            /\ (frame[t].decision = "blocked"
                  /\ pc[t] \in {"al_lock", "al_push", "done"}) =>
                   pc'[t] \in {"al_lock", "al_push", "done"}

\* C1: with the proxy enabled, a request whose host the block check finds
\* blocked is answered 403 and handling stops (no tunnel, no upstream
\* connection); its record_request adds exactly 1 to the host's
\* DomainStat.requests and DomainStat.blocked and to blocked_count, leaves
\* allowed_count alone, and runs once.
C1_BlockedIs403AndCounted == []C1_State /\ [][C1_Step]_vars

\* C1 witness: a GET to a blocked host ended with 403, counted as blocked.
C1_Witness ==
    \E t \in Tasks :
        /\ frame[t].decision = "blocked"
        /\ frame[t].req.method = "GET"
        /\ pc[t] = "done"
        /\ frame[t].status = 403
        /\ blocked_count = 1
        /\ allowed_count = 0
        /\ Blocked_of(stats, frame[t].req.host) = 1
        /\ Requests_of(stats, frame[t].req.host) = 1

\* C2 as stated: whatever the toggle states, no upstream connection exists for
\* a request whose host the blocklist blocks (the blocklist being the one the
\* proxy started with: the control surface did not add or remove an entry).
C2_BlockedNeverReachesNetwork ==
    frame[UI].op \notin {"add_tracker", "remove_tracker"} =>
        \A c \in conns : ~is_blocked(trackers, c.host)

C2_State ==
    \A t \in Tasks :
        /\ frame[t].decision = "blocked" =>
              /\ ConnsOf(t) = {}
              /\ frame[t].tunnel = "none"
              /\ pc[t] \notin {"p_dial", "p_handshake", "p_send",
                               "tun_upgrade", "tun_dial", "tun_copy"}
        /\ ConnsOf(t) # {} =>
              \/ frame[t].gate = "enabled" /\ frame[t].decision = "allowed"
              \/ /\ frame[t].gate = "disabled"
                 /\ frame[t].decision = "unchecked"
                 /\ is_connect(frame[t].req)
                 /\ frame[t].req.authority

C2_Step ==
    \A t \in Tasks :
        BlockStep(t) =>
            frame'[t].decision =
                IF is_blocked(trackers, frame[t].req.host)
                THEN "blocked" ELSE "allowed"

\* C2 (amended): a request handled with the proxy enabled whose block check
\* answers blocked opens no upstream connection, to forward or to tunnel, and
\* every upstream connection of such a request follows a block check that
\* answered not blocked; the only connections opened without a block check
\* are the tunnels of CONNECT requests handled with the proxy disabled.
C2_BlockCheckPrecedesForwarding == []C2_State /\ [][C2_Step]_vars

\* C2 witness: a CONNECT to a blocked host, proxy enabled, ended with 403 and
\* no connection, while the blocklist still blocks the host.
C2_Witness ==
    \E t \in Tasks :
        /\ frame[t].decision = "blocked"
        /\ is_connect(frame[t].req)
        /\ frame[t].gate = "enabled"
        /\ pc[t] = "done"
        /\ frame[t].status = 403
        /\ ConnsOf(t) = {}
        /\ is_blocked(trackers, frame[t].req.host)

\* C4: once a non-blocked request, handled with the proxy enabled, that the
\* enabled classifier judges a likely tracker has been answered or has reached
\* its upstream, its host is in the suggestion queue.
C4_PositiveVerdictIsEnqueued ==
    \A t \in Tasks :
        (/\ frame[t].decision = "allowed"
         /\ pc[t] = "done" \/ ConnsOf(t) # {}
         /\ ai.enabled
         /\ is_likely_tracker(ai, frame[t].req.url, frame[t].req.host,
                              frame[t].req.referer).result)
        => seq_contains(ai_suggested_trackers, frame[t].req.host)

C5_State ==
    \A t \in Tasks :
        (frame[t].gate = "disabled" /\ ~is_connect(frame[t].req)) =>
            /\ frame[t].decision = "unchecked"
            /\ ~frame[t].blocked
            /\ frame[t].domain = frame[t].req.host
            /\ ConnsOf(t) = {}
            /\ pc[t] \in {"rr_stats", "rr_count", "done"}
            /\ pc[t] = "done" => frame[t].status = 503

C5_Step ==
    \A t \in Tasks :
        LET h == frame[t].req.host
            disabled == frame[t].gate = "disabled" /\ ~is_connect(frame[t].req)
        IN  /\ (GateStep(t) /\ ~proxy_enabled /\ ~is_connect(frame[t].req)) =>
                   /\ frame'[t].gate = "disabled"
                   /\ ~frame'[t].blocked
                   /\ pc'[t] = "rr_stats"
            /\ (disabled /\ StatsStep(t)) =>
                   /\ Requests_of(stats', h) = Requests_of(stats, h) + 1
                   /\ Blocked_of(stats', h) = Blocked_of(stats, h)
                   /\ UNCHANGED <<allowed_count, blocked_count>>
            /\ (disabled /\ CountStep(t)) =>
                   /\ allowed_count' = allowed_count + 1
                   /\ UNCHANGED <<blocked_count, stats>>
                   /\ pc'[t] = "done"

\* C5: a non-CONNECT request that finds the proxy disabled is answered 503
\* with no block check and no upstream connection; its record_request adds
\* exactly 1 to allowed_count and to the host's DomainStat.requests and leaves
\* blocked_count and the host's DomainStat.blocked alone, whether or not the
\* blocklist blocks the host.
C5_DisabledIs503AndAllowed == []C5_State /\ [][C5_Step]_vars

\* C5 witness: a GET to a host the blocklist blocks was answered 503 and
\* counted as allowed.
C5_Witness ==
    \E t \in Tasks :
        /\ frame[t].gate = "disabled"
        /\ frame[t].req.method = "GET"
        /\ is_blocked(trackers, frame[t].req.host)
        /\ pc[t] = "done"
        /\ frame[t].status = 503
        /\ allowed_count = 1
        /\ blocked_count = 0
        /\ Requests_of(stats, frame[t].req.host) = 1
        /\ Blocked_of(stats, frame[t].req.host) = 0

C6_State ==
    \A t \in Tasks :
        (/\ frame[t].gate = "disabled"
         /\ is_connect(frame[t].req)
         /\ frame[t].req.authority) =>
            /\ frame[t].status = 200
            /\ frame[t].tunnel = "passthrough"
            /\ frame[t].decision = "unchecked"
            /\ pc[t] \in {"tun_upgrade", "tun_dial", "tun_copy", "done"}
            /\ ConnsOf(t) \subseteq
                  {[task |-> t, host |-> frame[t].req.host, kind |-> "tunnel"]}
            /\ pc[t] = "tun_copy" => ConnsOf(t) # {}

C6_Step ==
    \A t \in Tasks :
        (/\ GateStep(t)
         /\ ~proxy_enabled
         /\ is_connect(frame[t].req)
         /\ frame[t].req.authority) =>
            /\ frame'[t].gate = "disabled"
            /\ frame'[t].status = 200
            /\ frame'[t].tunnel = "passthrough"
            /\ pc'[t] = "tun_upgrade"
            /\ UNCHANGED <<stats, allowed_count, blocked_count>>

\* C6: a CONNECT with an authority that finds the proxy disabled is answered
\* with an empty 200 and its relay task is spawned in the same step; the relay
\* dials the request's authority only, and the block check is never run for
\* the request.
C6_DisabledConnectIsTunnelled == []C6_State /\ [][C6_Step]_vars

\* C6 witness: the relay of a CONNECT to a host the blocklist blocks is copying
\* bytes on its upstream connection, the proxy being disabled.
C6_Witness ==
    \E t \in Tasks :
        /\ frame[t].gate = "disabled"
        /\ is_connect(frame[t].req)
        /\ frame[t].status = 200
        /\ pc[t] = "tun_copy"
        /\ is_blocked(trackers, frame[t].req.host)
        /\ [task |-> t, host |-> frame[t].req.host, kind |-> "tunnel"] \in conns

-----------------------------------------------------------------------------
(* The hub's operations under contention (SpecHub) *)

\* The threads whose operation is record_request.
Recording == {th \in HubThreads : frame[th].op = "record_request"}

\* Every operation started so far is a record_request, one per thread.
OnlyRecording == ui_calls = Cardinality(Recording)

PastStats(d, flags) ==
    {th \in Recording : /\ pc[th] \in {"rr_count", "idle"}
                        /\ frame[th].domain = d
                        /\ frame[th].blocked \in flags}

PastCount(flags) ==
    {th \in Recording : pc[th] = "idle" /\ frame[th].blocked \in flags}

\* C7: record_request calls running concurrently on the same domain, with no
\* other operation (so no reset) among them, lose no update: the domain's
\* DomainStat.requests is the number of calls past the statistics section,
\* DomainStat.blocked the number of those with blocked = true, and
\* blocked_count and allowed_count are the numbers of calls returned with
\* blocked = true and blocked = false.
C7_RecordRequestLosesNoUpdate ==
    OnlyRecording =>
        /\ \A d \in UiDomains :
              /\ Requests_of(stats, d) = Cardinality(PastStats(d, BOOLEAN))
              /\ Blocked_of(stats, d) = Cardinality(PastStats(d, {TRUE}))
        /\ blocked_count = Cardinality(PastCount({TRUE}))
        /\ allowed_count = Cardinality(PastCount({FALSE}))

\* C7 witness: two calls on the same domain, one blocked and one not, are both
\* between the two critical sections of record_request.
C7_Witness ==
    /\ OnlyRecording
    /\ \A th \in HubThreads : pc[th] = "rr_count" /\ frame[th].domain = HostA
    /\ \E th \in HubThreads : frame[th].blocked
    /\ \E th \in HubThreads : ~frame[th].blocked
    /\ stats[HostA] = [requests |-> 2, blocked |-> 1]

\* C8 as stated: a thread in a hub operation holds at most one mutex, and
\* holds none while the blocklist file is written.
C8_AtMostOneLockNoIoUnderLock ==
    \A th \in HubThreads :
        /\ Len(held[th]) <= 1
        /\ pc[th] = "bl_save" => held[th] = <<>>

\* The operations that call append_log while holding their own mutex.
LogsUnder ==
    [blocker |-> {"add_tracker", "remove_tracker", "approve_ai_suggestion"},
     ai_suggested_trackers |-> {"add_ai_suggested_tracker"},
     ai_tracker |-> {"save_ai_model"}]

\* C8 (amended): a thread in a hub operation holds at most two mutexes; when
\* it holds two, the second is the logs mutex, taken by append_log inside
\* add_tracker, remove_tracker (blocker held; approve_ai_suggestion through
\* add_tracker), add_ai_suggested_tracker (ai_suggested_trackers held) or
\* save_ai_model (ai_tracker held); nothing is acquired while logs is held; and
\* the blocklist file is written while the blocker mutex, and only it, is held.
C8_LocksNestOnlyIntoLogs ==
    \A th \in HubThreads :
        /\ Len(held[th]) <= 2
        /\ Len(held[th]) = 2 =>
              /\ held[th][2] = "logs"
              /\ held[th][1] \in DOMAIN LogsUnder
              /\ frame[th].op \in LogsUnder[held[th][1]]
        /\ pc[th] = "bl_save" => held[th] = <<"blocker">>
        /\ pc[th] = "al_push" <=> seq_contains(held[th], "logs")

\* C8 witness: add_tracker has written the blocklist file and is inside
\* append_log, holding the blocker mutex and the logs mutex.
C8_Witness ==
    \E th \in HubThreads :
        /\ frame[th].op = "add_tracker"
        /\ held[th] = <<"blocker", "logs">>
        /\ pc[th] = "al_push"
        /\ tracker_file = save_trackers(trackers)
        /\ normalize(frame[th].domain) \in trackers

-----------------------------------------------------------------------------
(* The classifier's known-lists *)

\* C11: no domain is in both known_trackers and known_legitimate, after any
\* sequence of classifier calls (report_false_positive, report_false_negative,
\* is_likely_tracker and the rest), and hence after approve_ai_suggestion and
\* reject_ai_suggestion, which reach the lists only through the two reports
\* under the ai_tracker lock.
C11_KnownListsDisjoint ==
    Range(ai.known_trackers) \cap Range(ai.known_legitimate) = {}

\* C11 witness: a domain reported legitimate was then reported a tracker and
\* has moved from one list to the other.
C11_Witness ==
    /\ call.op = "report_false_negative"
    /\ ai.false_positive_count = 1
    /\ ai.known_legitimate = <<>>
    /\ ai.known_trackers = <<call.domain>>

-----------------------------------------------------------------------------
(* The suggestion queue *)

\* The positions of append_log(text + arg) in the log buffer.
LogIndex(text, arg) == {i \in 1..Len(logs) : logs[i] = Entry(text, arg)}

\* C12: a domain that was put in the suggestion queue is never both promoted
\* to the blocklist by a completed approve_ai_suggestion and reported to the
\* classifier as a false positive by a completed reject_ai_suggestion.
C12_ApproveOrRejectNeverBoth ==
    \A d \in UiDomains :
        ~ \E i \in LogIndex("Added domain to AI suggestions", d),
             j \in LogIndex("Approved AI-suggested tracker", d),
             k \in LogIndex("Rejected AI-suggested tracker", d) :
                /\ i < j
                /\ i < k
                /\ normalize(d) \in trackers
                /\ ai.false_positive_count > 0
                /\ ai.false_negative_count > 0

NoDuplicates(seq) ==
    \A i, j \in 1..Len(seq) : seq[i] = seq[j] => i = j

\* C13: the suggestion queue holds no domain twice, under any interleaving of
\* add_ai_suggested_tracker, approve_ai_suggestion, reject_ai_suggestion and
\* clear_ai_suggested_trackers.
C13_QueueHasNoDuplicates == NoDuplicates(ai_suggested_trackers)

\* C13 witness: two threads have each completed add_ai_suggested_tracker for
\* the same domain and the queue holds it once.
C13_Witness ==
    /\ \A th \in HubThreads :
          /\ frame[th].op = "add_ai_suggested_tracker"
          /\ frame[th].domain = HostA
          /\ pc[th] = "idle"
    /\ ai_suggested_trackers = <<HostA>>
    /\ Cardinality(LogIndex("Added domain to AI suggestions", HostA)) = 1

-----------------------------------------------------------------------------
(* The log buffer (SpecLog) *)

\* A thread leaves the critical section of append_log.
PushStep(th) == pc[th] = "al_push" /\ pc'[th] # "al_push"

C14_Step ==
    \A th \in HubThreads :
        PushStep(th) =>
            LET evicted == IF Len(logs) >= LogCeiling THEN 1 ELSE 0
            IN  /\ Len(logs') = Len(logs) + 1 - evicted
                /\ logs'[Len(logs')] = frame[th].entry
                /\ \A i \in 1..(Len(logs') - 1) : logs'[i] = logs[i + evicted]

\* C14: between the steps of concurrent append_log callers the log buffer
\* never holds more than LogCeiling entries, and an append to a full buffer
\* drops the oldest entry, keeps the others in order and puts the new entry
\* last.
C14_LogBufferBounded == [](Len(logs) <= LogCeiling) /\ [][C14_Step]_vars

\* C14 witness: the buffer is full, its start-up entry has been evicted and
\* the newest entry is the one a caller just appended.
C14_Witness ==
    /\ Len(logs) = LogCeiling
    /\ logs[1] # Entry("Proxy server started", <<>>)
    /\ logs[2] = Entry("Proxy enabled", <<>>)
    /\ logs[LogCeiling] = Entry("Logging disabled", <<>>)
    /\ logs[LogCeiling - 1] = Entry("Logging enabled", <<>>)

-----------------------------------------------------------------------------
(* The per-domain statistics *)

C15_State ==
    \A d \in DOMAIN stats :
        /\ stats[d].blocked <= stats[d].requests
        /\ stats[d].requests >= 1

C15_Step ==
    /\ \A th \in Threads :
          StatsStep(th) =>
              /\ frame[th].domain \in DOMAIN stats'
              /\ DOMAIN stats' = DOMAIN stats \cup {frame[th].domain}
    /\ \A d \in DOMAIN stats' \ DOMAIN stats :
          /\ stats'[d].requests = 1
          /\ \E th \in Threads : StatsStep(th) /\ frame[th].domain = d
    /\ DOMAIN stats \ DOMAIN stats' # {} =>
          /\ stats' = [d \in {} |-> 0]
          /\ \E th \in Threads :
                pc[th] = "idle" /\ frame'[th].op = "reset_stats"

\* C15: every DomainStat has blocked <= requests; a DomainStat appears in the
\* step of record_request that counts the first request to its host (with
\* requests = 1), every record_request leaves one for its host, and the only
\* step that removes a DomainStat is reset_stats, which removes them all.
C15_DomainStatWellFormed == []C15_State /\ [][C15_Step]_vars

\* C15 witness: two blocked requests to the same host were recorded with a
\* reset_stats between them, so the host's DomainStat was removed and created
\* again at the second request.
C15_Witness ==
    /\ \A t \in Tasks :
          /\ pc[t] = "done"
          /\ frame[t].blocked
          /\ frame[t].domain = HostA
    /\ frame[UI].op = "reset_stats"
    /\ pc[UI] = "idle"
    /\ DOMAIN stats = {HostA}
    /\ stats[HostA] = [requests |-> 1, blocked |-> 1]

-----------------------------------------------------------------------------
(* The blocklist engine (SpecList) *)

\* C16: after any sequence of load, add, remove and import with mixed-case,
\* padded, comment-like or empty input strings, every member of the in-memory
\* blocklist is lowercase and has no leading or trailing whitespace.
C16_MembersLowercaseTrimmed ==
    \A entry \in trackers :
        /\ to_lowercase(entry) = entry
        /\ entry = <<>> \/ (~is_whitespace(Head(entry))
                            /\ ~is_whitespace(entry[Len(entry)]))

\* C16 witness: add_tracker(" A") put "a" in the set.
C16_Witness ==
    /\ call.op = "add_tracker"
    /\ call.domain = <<" ", "A">>
    /\ call.result = "ok"
    /\ call.written
    /\ <<"a">> \in trackers


\* C17: blocklist round trip.  When add_tracker(d) has saved the list and the
\* file is then loaded, the loaded set contains the normal form of d; when
\* remove_tracker(d) has saved the list and the file is then loaded, the
\* loaded set does not contain it.
C17_RoundTrip ==
    [][ call'.op = "load" =>
          /\ (call.op = "add_tracker" /\ call.written)
                => normalize(call.domain) \in trackers'
          /\ (call.op = "remove_tracker" /\ call.written)
                => normalize(call.domain) \notin trackers' ]_vars


\* add_tracker(d) directly after add_tracker(d): the second call changes
\* neither the set nor the file and returns Ok.
AddTwiceStep ==
    (call.op = "add_tracker" /\ call'.op = "add_tracker"
        /\ call'.domain = call.domain)
    => /\ trackers' = trackers
       /\ tracker_file' = tracker_file
       /\ call'.result = "ok"

\* remove_tracker of a domain that is not in the set.
RemoveAbsentStep ==
    call'.op = "remove_tracker" /\ normalize(call'.domain) \notin trackers

\* C18 as stated: add(d) twice leaves the same set and the same persisted
\* list as add(d) once, and remove(d) of a domain that is not in the set
\* returns success and leaves the set unchanged.
C18_Idempotent ==
    [][ /\ AddTwiceStep
        /\ RemoveAbsentStep => (trackers' = trackers /\ call'.result = "ok")
      ]_vars

\* C18 amended: add(d) twice leaves the same set and the same file as add(d)
\* once, the second call returning Ok without writing; remove(d) of a domain
\* that is not in the set leaves the set unchanged, writes the file again
\* from the unchanged set, and returns Ok exactly when that write succeeds.
C18_IdempotentUpToWrite ==
    [][ /\ AddTwiceStep
        /\ RemoveAbsentStep =>
             /\ trackers' = trackers
             /\ call'.result = "ok" <=> call'.written
             /\ tracker_file' = IF call'.written THEN save_trackers(trackers)
                                ELSE tracker_file
      ]_vars

\* C18 witness: remove_tracker of an absent domain from a non-empty list
\* returned Err because the file could not be written.
C18_Witness ==
    /\ call.op = "remove_tracker"
    /\ ~call.present
    /\ call.result = "err"
    /\ trackers # {}
    /\ parse_lines(tracker_file) # trackers


\* C32: when save_trackers fails during add_tracker(d) or remove_tracker(d),
\* the call returns Err and the set keeps the mutation: the normalized d is
\* in the set (and is_blocked answers true for it) after the failed add, and
\* is not in the set after the failed remove.
C32_FailedSaveKeepsMutation ==
    /\ (call.op = "add_tracker" /\ ~call.present /\ ~call.written)
          => /\ call.result = "err"
             /\ normalize(call.domain) \in trackers
             /\ is_blocked(trackers, normalize(call.domain))
    /\ (call.op = "remove_tracker" /\ ~call.written)
          => /\ call.result = "err"
             /\ normalize(call.domain) \notin trackers

\* remove_tracker of a listed domain returned Err, the file still lists the
\* domain and the set no longer holds it.
C32_Witness ==
    /\ call.op = "remove_tracker"
    /\ call.present
    /\ ~call.written
    /\ call.result = "err"
    /\ normalize(call.domain) \in parse_lines(tracker_file)
    /\ normalize(call.domain) \notin trackers

\* C38: whenever add_tracker(d) has returned Ok, a line of the blocklist file
\* is the normalized d, also when an earlier add_tracker(d) could not write
\* the file and the call is made again.
C38_SuccessfulAddIsPersisted ==
    (call.op = "add_tracker" /\ call.result = "ok")
        => \E i \in 1..Len(tracker_file) :
                normalize(tracker_file[i]) = normalize(call.domain)

-----------------------------------------------------------------------------
(* clean_url (SpecClean) *)

\* C19: URL cleaning is idempotent.  For every input URL, with query values
\* that contain percent-encoded '&' or '=' among them, clean_url applied to
\* the result of clean_url returns that result.
C19_CleanUrlIdempotent ==
    [][ (call.op = "clean_url" /\ call'.op = "clean_url")
            => call'.result = call.result ]_vars


\* C20: for every parseable URL the parameters of clean_url's result are
\* exactly the parameters of the input whose lowercased name is not in the
\* tracking-parameter vocabulary, with their values and in their order, and
\* host and path are the input's; an unparseable input is returned unchanged.
C20_CleanUrlFilters ==
    call.op = "clean_url" =>
        LET input == Url_parse(call.url_str)
            output == Url_parse(call.result)
        IN  IF input.ok
            THEN /\ output.ok
                 /\ output.host = input.host
                 /\ output.path = input.path
                 /\ query_pairs(output)
                      = SelectSeq(query_pairs(input),
                                  LAMBDA kv : to_lowercase(kv[1]) \notin tracking_params)
            ELSE call.result = call.url_str

-----------------------------------------------------------------------------
(* The classifier's verdicts and counter (SpecAI) *)

\* C21: while the classifier is disabled, every is_likely_tracker call
\* returns false and leaves the classifier as it was (decision cache,
\* detection counter, known-lists), also for a URL cached as true and for a
\* host in known_trackers.
C21_DisabledClassifyIsInert ==
    [][ (call'.op = "is_likely_tracker" /\ ~ai.enabled) =>
          /\ ~call'.result
          /\ ai' = ai ]_vars

\* C21 witness: a disabled classifier answered false for a URL it has cached
\* as true and a host it knows as a tracker.
C21_Witness ==
    /\ call.op = "is_likely_tracker"
    /\ ~ai.enabled
    /\ ~call.result
    /\ call.url \in DOMAIN ai.decision_cache
    /\ ai.decision_cache[call.url]
    /\ seq_contains(ai.known_trackers, call.host)


\* C22: an is_likely_tracker call on an enabled classifier whose URL is not
\* in the decision cache returns true when the host is in known_trackers and
\* false when it is in known_legitimate, whatever the URL would score, and
\* the verdict is in the cache under the URL afterwards.
C22_KnownListsDecide ==
    [][ (call'.op = "is_likely_tracker" /\ ai.enabled
            /\ call'.url \notin DOMAIN ai.decision_cache) =>
          /\ call'.url \in DOMAIN ai'.decision_cache
          /\ ai'.decision_cache[call'.url] = call'.result
          /\ seq_contains(ai.known_trackers, call'.host) => call'.result
          /\ seq_contains(ai.known_legitimate, call'.host) => ~call'.result
      ]_vars

\* C22 witness: the URL that scores above the threshold got the verdict false
\* because its host is in known_legitimate, and that verdict is cached.
C22_Witness ==
    /\ call.op = "is_likely_tracker"
    /\ call.url = TrackingUrl(HostA)
    /\ call.host = HostA
    /\ ~call.repeat
    /\ ai.enabled
    /\ seq_contains(ai.known_legitimate, HostA)
    /\ ~call.result
    /\ DOMAIN ai.decision_cache = {TrackingUrl(HostA)}
    /\ ~ai.decision_cache[TrackingUrl(HostA)]


\* C23: detection_count grows by exactly 1 in an is_likely_tracker call that
\* misses the cache (on an enabled classifier) and returns true; every other
\* is_likely_tracker call (cache hit, false verdict, classifier disabled) and
\* every report_false_positive, report_false_negative and clear_cache call
\* leaves it as it was.
C23_DetectionCountStep ==
    [][ /\ call'.op = "is_likely_tracker" =>
              ai'.detection_count =
                  ai.detection_count
                    + (IF ai.enabled /\ call'.url \notin DOMAIN ai.decision_cache
                          /\ call'.result
                       THEN 1 ELSE 0)
        /\ call'.op \in {"report_false_positive", "report_false_negative",
                         "clear_cache"} =>
              ai'.detection_count = ai.detection_count
      ]_vars

\* C23 witness: two detections were counted, the second one after the cache
\* had been cleared.
C23_Witness ==
    /\ call.op = "is_likely_tracker"
    /\ call.result
    /\ ai.detection_count = 2
    /\ DOMAIN ai.decision_cache = {call.url}


-----------------------------------------------------------------------------
(* The classifier's scoring path (SpecFeat) *)

\* C24: is_third_party is false whenever no parseable Referer is present.
\* For a request without a Referer header and for a request whose Referer
\* value does not parse as a URL, extract_features sets is_third_party to
\* false and the confidence is what it is without that feature.
C24_NoParseableRefererIsFirstParty ==
    (call.op = "score" /\ (~call.referer.present \/ ~call.referer.parse)) =>
        /\ ~call.features.is_third_party
        /\ call.confidence
             = calculate_confidence([call.features EXCEPT !.is_third_party = FALSE])


\* C25: with the default weights and the threshold 0.65, a request with a
\* tracking parameter, the path /pixel/track and a numeric path segment of
\* more than 5 digits, without a Referer, has a confidence of at least 0.65
\* and the verdict true; and the confidence of every feature vector is in
\* [0, 1] (confidences are in millionths).
C25_ScenarioScoresAndRange ==
    /\ (call.op = "score" /\ call.url.parse /\ Len(call.url.path) >= 2
          /\ SubSeq(call.url.path, 1, 2)
                = << <<"p","i","x","e","l">>, <<"t","r","a","c","k">> >>
          /\ call.features.has_tracking_params
          /\ call.features.has_numeric_id
          /\ ~call.referer.present) =>
            /\ call.features.has_suspicious_path
            /\ call.confidence >= 650000
            /\ call.result
    /\ call.op \in {"score", "calculate_confidence"} =>
            /\ call.confidence >= 0
            /\ call.confidence <= 1000000

\* C25 witness: the scenario's URL, without a Referer, scored at least 0.65
\* and was judged a tracker.
C25_Witness ==
    /\ call.op = "score"
    /\ call.url = TrackingUrl(HostA)
    /\ call.referer = NoReferer
    /\ call.confidence >= 650000
    /\ call.confidence < 1000000
    /\ call.result


\* The tasks whose response has been produced.
Responded == {t \in Tasks : frame[t].status # 0}

\* C35: every request handled is recorded exactly once before its response,
\* whatever its method and the state of the toggles: when every spawned task
\* has produced its response and reset_stats was never called, allowed_count
\* + blocked_count is the number of requests handled.
C35_EveryRequestRecordedOnce ==
    (/\ frame[UI].op # "reset_stats"
     /\ \A t \in Tasks : pc[t] # "idle" => t \in Responded)
        => allowed_count + blocked_count = Cardinality(Responded)

-----------------------------------------------------------------------------
(* The bandwidth counter and the approval of suggestions (SpecHub) *)

C33_Step ==
    /\ bandwidth_saved' >= bandwidth_saved
    /\ (call' # call /\ call'.op = "track_bandwidth")
          => bandwidth_saved' =
                bandwidth_saved + (IF call'.blocked THEN call'.bytes ELSE 0)
    /\ bandwidth_saved' # bandwidth_saved
          => (call' # call /\ call'.op = "track_bandwidth")

\* C33: no step of any hub operation, reset_stats included, lowers the
\* bandwidth-saved counter; track_bandwidth(bytes, blocked) adds bytes when
\* blocked is true and nothing when it is false, and nothing else changes the
\* counter.
C33_BandwidthOnlyGrows == [][C33_Step]_vars

\* Three bytes were saved by two calls and reset_stats, run to its end, left
\* them in place.
C33_Witness ==
    /\ bandwidth_saved = 3
    /\ \E th \in HubThreads :
          frame[th].op = "reset_stats" /\ pc[th] = "idle"

\* Thread th is back from the operation `op` and no other thread has called
\* the hub.
ReturnedAlone(th, op) ==
    /\ pc[th] = "idle"
    /\ frame[th].op = op
    /\ \A other \in HubThreads \ {th} : frame[other].op = "none"

C34_State ==
    \A th \in HubThreads :
        /\ (ReturnedAlone(th, "approve_ai_suggestion")
               /\ frame[th].result = "ok")
              => /\ normalize(frame[th].domain) \in trackers
                 /\ seq_contains(ai.known_trackers, frame[th].domain)
                 /\ ~seq_contains(ai.known_legitimate, frame[th].domain)
                 /\ ~seq_contains(ai_suggested_trackers, frame[th].domain)
        /\ ReturnedAlone(th, "reject_ai_suggestion")
              => /\ seq_contains(ai.known_legitimate, frame[th].domain)
                 /\ ~seq_contains(ai_suggested_trackers, frame[th].domain)

\* The steps of approve_ai_suggestion and reject_ai_suggestion, whatever the
\* other thread does in between.
C34_Step ==
    \A th \in HubThreads :
        /\ (frame'[th].op = "approve_ai_suggestion" /\ pc[th] = "bl_unlock"
               /\ pc'[th] # "bl_unlock")
              => normalize(frame[th].domain) \in trackers'
        /\ (pc[th] = "ap_suggested" /\ pc'[th] # "ap_suggested")
              => ~seq_contains(ai_suggested_trackers', frame[th].domain)
        /\ (pc[th] = "ap_tracker" /\ pc'[th] # "ap_tracker")
              => /\ seq_contains(ai'.known_trackers, frame[th].domain)
                 /\ ~seq_contains(ai'.known_legitimate, frame[th].domain)
        /\ (pc[th] = "idle" /\ pc'[th] = "rj_tracker")
              => /\ ~seq_contains(ai_suggested_trackers', frame'[th].domain)
                 /\ UNCHANGED blockerVars
        /\ (pc[th] = "rj_tracker" /\ pc'[th] # "rj_tracker")
              => /\ seq_contains(ai'.known_legitimate, frame[th].domain)
                 /\ UNCHANGED blockerVars
        /\ (frame[th].op = "reject_ai_suggestion" /\ pc[th] # "idle"
               /\ pc'[th] # pc[th])
              => UNCHANGED blockerVars

\* C34: a successful approve_ai_suggestion(d) leaves the normalized d in the
\* blocklist, d in known_trackers and not in known_legitimate, and d out of
\* the suggestion queue; reject_ai_suggestion(d) leaves d in known_legitimate
\* and out of the queue and does not touch the blocklist.
C34_ApproveRejectOutcome == []C34_State /\ [][C34_Step]_vars

\* A queued domain that had been rejected was approved afterwards: it is in
\* the blocklist and in known_trackers, and out of the queue.
C34_Witness ==
    \E th \in HubThreads :
        /\ ReturnedAlone(th, "approve_ai_suggestion")
        /\ frame[th].result = "ok"
        /\ LogIndex("Rejected AI-suggested tracker", frame[th].domain) # {}
        /\ normalize(frame[th].domain) \in trackers
        /\ seq_contains(ai.known_trackers, frame[th].domain)
        /\ ai_suggested_trackers = <<>>

\* The locks a thread holds: at most one, or one of blocker,
\* ai_suggested_trackers and ai_tracker with logs inside it.
C36_State ==
    \A th \in HubThreads :
        /\ Len(held[th]) <= 2
        /\ Len(held[th]) = 2
              => /\ held[th][1] \in {"blocker", "ai_suggested_trackers",
                                     "ai_tracker"}
                 /\ held[th][2] = "logs"
        /\ pc[th] = "al_push" => held[th][Len(held[th])] = "logs"

\* C36: locks nest only with logs innermost, and every hub operation a
\* thread has started returns, under any interleaving with the other thread.
C36_DeadlockFree ==
    /\ []C36_State
    /\ \A th \in HubThreads : (pc[th] # "idle") ~> (pc[th] = "idle")

\* One thread holds the blocker lock with the logs lock inside it while the
\* other waits for the logs lock.
C36_Witness ==
    \E th, other \in HubThreads :
        /\ held[th] = <<"blocker", "logs">>
        /\ pc[other] = "al_lock"

\* The sum of field over the per-domain statistics.
SumStats(field) == SumOver(DOMAIN stats, [d \in DOMAIN stats |-> stats[d][field]])

\* C37: whenever no hub operation is in progress, blocked_count is the sum of
\* DomainStat.blocked and allowed_count + blocked_count is the sum of
\* DomainStat.requests, for every interleaving of record_request and
\* reset_stats.
C37_CountersAgreeWithStats ==
    (\A th \in HubThreads : pc[th] = "idle")
        => /\ blocked_count = SumStats("blocked")
           /\ allowed_count + blocked_count = SumStats("requests")

C39_State ==
    \A th \in HubThreads :
        (frame[th].op = "approve_ai_suggestion" /\ frame[th].result = "err")
            => pc[th] = "idle"

C39_Step ==
    \A th \in HubThreads :
        (/\ pc'[th] # pc[th] \/ frame'[th] # frame[th]
         /\ frame'[th].op = "approve_ai_suggestion"
         /\ frame'[th].result # "ok")
            => UNCHANGED <<ai, ai_suggested_trackers>>

\* C39: approve_ai_suggestion(d) whose add_tracker fails returns the error
\* at once, and none of its steps up to there changes the suggestion queue
\* or the classifier (known lists and false-negative counter included).
C39_FailedApproveChangesNothing == []C39_State /\ [][C39_Step]_vars

\* approve_ai_suggestion of the queued domain returned Err: the domain is
\* still queued and the classifier has received no feedback.
C39_Witness ==
    \E th \in HubThreads :
        /\ pc[th] = "idle"
        /\ frame[th].op = "approve_ai_suggestion"
        /\ frame[th].result = "err"
        /\ seq_contains(ai_suggested_trackers, frame[th].domain)
        /\ ai = NewAITracker

-----------------------------------------------------------------------------
(* Poisoned locks (SpecPoison) *)

C26_State ==
    (call.op \in {a[1] : a \in Accessors} /\ call.lock \in poisoned) =>
        CASE call.op \in {"is_proxy_enabled", "is_logging_enabled",
                          "is_ai_detection_enabled"} -> call.result = FALSE
          [] call.op \in {"get_allowed_count", "get_blocked_count",
                          "get_bandwidth_saved"} -> call.result = 0
          [] call.op \in {"get_logs", "get_ai_suggested_trackers"} ->
                call.result = <<>>
          [] call.op = "get_stats" -> DOMAIN call.result = {}

C26_Step ==
    \A th \in HubThreads :
        /\ (pc[th] = "al_lock" /\ pc'[th] # "al_lock" /\ "logs" \in poisoned)
              => (logs' = logs /\ pc'[th] # "al_push" /\ held' = held)
        /\ (StatsStep(th) /\ "stats" \in poisoned) => stats' = stats
        /\ (CountStep(th) /\ frame[th].op = "record_request"
               /\ (IF frame[th].blocked THEN "blocked_count"
                   ELSE "allowed_count") \in poisoned)
              => /\ blocked_count' = blocked_count
                 /\ allowed_count' = allowed_count
                 /\ pc'[th] = "idle"

MutationLocks(op) ==
    IF op \in {"add_tracker", "remove_tracker"} THEN {"blocker"}
    ELSE IF op = "approve_ai_suggestion" THEN {"blocker", "ai_tracker"}
    ELSE IF op \in {"enable_ai_detection", "disable_ai_detection",
                    "set_ai_confidence_threshold", "reset_ai_stats",
                    "reject_ai_suggestion"}
    THEN {"ai_tracker"}
    ELSE {}

\* C27: a blocklist or classifier mutation that has returned while the
\* blocker lock or the ai_tracker lock it needs was poisoned has returned an
\* error to its caller.
C27_MutationsSurfaceError ==
    \A th \in HubThreads :
        (pc[th] = "idle" /\ MutationLocks(frame[th].op) \cap poisoned # {})
            => frame[th].result = "err"


-----------------------------------------------------------------------------
(* Upstream and tunnel failures (Spec) *)

FailureTexts == {"Failed to connect", "Handshake failed", "Request failed"}

\* The failure entries in the log that name host h.
FailureEntries(h) ==
    {i \in 1..Len(logs) : logs[i].text \in FailureTexts /\ logs[i].arg = h}

\* The tasks that answered 502 to a request for host h.
Answered502(h) ==
    {t \in Tasks : frame[t].status = 502 /\ frame[t].req.host = h}

C28_State ==
    /\ \A t \in Tasks :
          frame[t].status = 502 =>
              /\ pc[t] = "done"
              /\ ~is_connect(frame[t].req)
              /\ frame[t].decision = "allowed"
              /\ frame[t].domain = frame[t].req.host
              /\ ~frame[t].blocked
              /\ \E c \in ConnsOf(t) : c.kind = "forward"
    /\ \A r \in Requests :
          Cardinality(FailureEntries(r.host)) = Cardinality(Answered502(r.host))

\* The steps of task t from the upstream dial to the 502 response.
C28_Step ==
    \A t \in Tasks :
        /\ (pc[t] \in {"p_dial", "p_handshake", "p_send"} /\ pc'[t] # pc[t])
              => /\ UNCHANGED <<stats, allowed_count, blocked_count>>
                 /\ pc'[t] = "al_lock"
                        => /\ frame'[t].pending = 502
                           /\ frame'[t].entry.text \in FailureTexts
                           /\ frame'[t].entry.arg = frame[t].req.host
        /\ (frame[t].pending = 502 /\ pc'[t] # pc[t])
              => /\ UNCHANGED <<stats, allowed_count, blocked_count>>
                 /\ pc'[t] = "done"
                        => /\ frame'[t].status = 502
                           /\ logs' = Append(logs, frame[t].entry)

\* C28: on the plain HTTP path a failed connect, handshake or send ends in a
\* 502 response with exactly one failure entry naming the host appended to the
\* log; the task reaches its end, and from the dial on it changes neither
\* the statistics nor the counters, so the request stays recorded as allowed.
C28_UpstreamFailureIs502Logged == []C28_State /\ [][C28_Step]_vars

\* A request for HostBA was recorded as allowed, its handshake failed, and the
\* task answered 502 after appending the failure entry.
C28_Witness ==
    \E t \in Tasks :
        /\ pc[t] = "done"
        /\ frame[t].status = 502
        /\ frame[t].req.host = HostBA
        /\ frame[t].entry = Entry("Handshake failed", HostBA)
        /\ FailureEntries(HostBA) # {}
        /\ allowed_count >= 1
        /\ Requests_of(stats, HostBA) >= 1


\* C29: a tunnel task that has ended after its upgrade, its dial or its copy
\* failed has left an entry naming its host in the log buffer, whether the
\* tunnel was started with the proxy enabled or disabled.
C29_TunnelFailureLogged ==
    \A t \in Tasks :
        (pc[t] = "done" /\ frame[t].tunnel # "none" /\ frame[t].result = "err")
            => \E i \in 1..Len(logs) :
                    /\ logs[i].text \in {"Tunnel error", "Upgrade error"}
                    /\ logs[i].arg = frame[t].req.host


-----------------------------------------------------------------------------
(* The accept loop (SpecAcceptFair) *)

\* A step that takes task t into service spawns it for one connection and
\* leaves every other task where it is.
C30_Step ==
    \A t \in Tasks :
        (pc[t] = "idle" /\ pc'[t] # "idle")
            => /\ pc[Listener] = "accepting"
               /\ pc'[t] = "p_logging"
               /\ frame'[t].op = "proxy"
               /\ \A u \in Tasks \ {t} : pc'[u] = pc[u] /\ frame'[u] = frame[u]

\* C30: while the accept loop runs, a task not yet spawned is spawned for a
\* new connection however long the tasks already running wait on a relay or
\* an upstream (unless accept itself fails), and each accepted connection gets
\* a task of its own.
C30_AcceptNeverBlocked ==
    /\ \A t \in Tasks :
          (pc[Listener] = "accepting" /\ pc[t] = "idle")
              ~> (pc[t] # "idle" \/ pc[Listener] = "stopped")
    /\ [][C30_Step]_vars

\* A CONNECT relay is copying while a second connection, accepted meanwhile,
\* waits for its upstream to answer.
C30_Witness ==
    \E t, u \in Tasks :
        /\ pc[Listener] = "accepting"
        /\ pc[t] = "tun_copy"
        /\ pc[u] = "p_send"


-----------------------------------------------------------------------------
(* The logging toggle and the request count (Spec) *)

\* C31: while logging is disabled a task appends nothing to the log after
\* its request line was decided, whatever the outcome of the request; and a
\* task that finds logging enabled appends METHOD HOST PATH before it reads
\* the global gate.
C31_LoggingToggleGoverns ==
    [][\A t \in Tasks :
          /\ (PushStep(t) /\ frame[t].ret # "p_gate" /\ ~log_enabled)
                => logs' = logs
          /\ (pc[t] = "p_logging" /\ pc'[t] # "p_logging" /\ log_enabled)
                => /\ pc'[t] = "al_lock"
                   /\ frame'[t].entry =
                         Entry(frame[t].req.method, frame[t].req.host)
                   /\ frame'[t].ret = "p_gate"]_vars


-----------------------------------------------------------------------------
(* The block check under a poisoned blocker lock (SpecFailOpen) *)

C40_State ==
    "blocker" \in poisoned =>
        /\ blocked_count = 0
        /\ \A t \in Tasks :
              /\ frame[t].decision # "blocked"
              /\ frame[t].status # 403
              /\ pc[t] \in {"p_dial", "tun_upgrade"}
                    => /\ frame[t].decision = "allowed"
                       /\ frame[t].domain = frame[t].req.host
                       /\ ~frame[t].blocked
                       /\ Requests_of(stats, frame[t].req.host) >= 1
                       /\ \E i \in 1..Len(logs) :
                             logs[i].text = "Failed to check blocker"

C40_Step ==
    \A t \in Tasks :
        /\ (pc[t] = "p_block" /\ pc'[t] # "p_block" /\ "blocker" \in poisoned)
              => /\ pc'[t] = "al_lock"
                 /\ frame'[t].entry.text = "Failed to check blocker"
                 /\ frame'[t].ret = "p_block_err"
        /\ (pc[t] = "p_block_err" /\ pc'[t] # "p_block_err")
              => /\ frame'[t].decision = "allowed"
                 /\ IF is_connect(frame[t].req) /\ ~frame[t].req.authority
                    THEN pc'[t] = "done" /\ frame'[t].status = 400
                    ELSE /\ pc'[t] = "rr_stats"
                         /\ frame'[t].domain = frame[t].req.host
                         /\ ~frame'[t].blocked
                         /\ frame'[t].ret = IF is_connect(frame[t].req)
                                            THEN "p_respond" ELSE "p_dial"

\* C40: when the blocker lock is poisoned at the block check, the request is
\* treated as not blocked: the warning is appended to the log, nothing is
\* answered 403 or counted as blocked, and the request goes on as one that
\* is not blocked does: a plain HTTP request or a CONNECT with an authority
\* is recorded as allowed and then forwarded or tunnelled.
C40_PoisonedBlockerFailsOpen == []C40_State /\ [][C40_Step]_vars

\* The blocklist holds HostA and its lock is poisoned: a GET for HostA was
\* recorded as allowed and is about to be forwarded.
C40_Witness ==
    \E t \in Tasks :
        /\ "blocker" \in poisoned
        /\ HostA \in trackers
        /\ frame[t].req.host = HostA
        /\ pc[t] = "p_dial"
        /\ frame[t].decision = "allowed"
        /\ allowed_count >= 1

====
